---- MODULE Spec2Model ----
(***************************************************************************)
(* A model of the SOW criticality pipeline of sow-compliance-agent:        *)
(*   train/feature_engineering.py     SOWFeatureEngineering                *)
(*   train/train_criticality_model.py CriticalityClassifier                *)
(*                                                                         *)
(* A pandas DataFrame is a record [index, columns, rows]: index is the     *)
(* sequence of row labels, columns the sequence of column names and rows   *)
(* the sequence of rows, each a function from column name to value.        *)
(* A float is an exact rational <<n, d>> (d > 0, lowest terms); the        *)
(* risk score c * (1 + ln(1 + w)) is the pair [coef |-> c, log1p_of |-> w].*)
(***************************************************************************)
EXTENDS Integers, Sequences, FiniteSets, TLC

VARIABLES
    caller_df,       \* the DataFrame object the caller holds and passes in
    label_encoders,  \* SOWFeatureEngineering.label_encoders
    scaler,          \* SOWFeatureEngineering.scaler
    fe_call,         \* the last call made on the Feature Engineer and its outcome
    fe_history,      \* the calls made before the last one, where a run records them
    clf,             \* a CriticalityClassifier object
    disk,            \* the file system: directories and files
    clock,           \* datetime.now(), counted in training runs
    clf_call,        \* the last call made on the classifier and its outcome
    main_call,       \* the last step of the training script's own and its outcome
    db,              \* the sow table of the alerting service
    outbox,          \* the alert emails sent so far
    app_call,        \* the call on the alerting service that the last step ended
    in_flight        \* the create_or_update_sow calls that have read and not yet committed

fe_vars == <<caller_df, label_encoders, scaler, fe_call, fe_history>>
clf_vars == <<clf, disk, clock, clf_call>>
main_vars == <<main_call>>
app_vars == <<db, outbox, app_call, in_flight>>
non_fe_vars == <<clf_vars, main_vars, app_vars>>
non_clf_vars == <<fe_vars, main_vars, app_vars>>
non_main_vars == <<fe_vars, clf_vars, app_vars>>
non_app_vars == <<fe_vars, clf_vars, main_vars>>
vars == <<caller_df, label_encoders, scaler, fe_call, fe_history,
          clf, disk, clock, clf_call, main_call, db, outbox, app_call, in_flight>>

----------------------------------------------------------------------------
(* Exact rational arithmetic.                                              *)

Abs(x) == IF x < 0 THEN -x ELSE x

RECURSIVE GCD(_, _)
GCD(a, b) == IF b = 0 THEN a ELSE GCD(b, a % b)

RatNorm(n, d) ==
    LET g == GCD(Abs(n), Abs(d))
        s == IF d < 0 THEN -1 ELSE 1
    IN  IF n = 0 THEN <<0, 1>> ELSE <<(s * n) \div g, (s * d) \div g>>

RatOfInt(i) == <<i, 1>>
\* p + q over the least common denominator; p * q cancelled crosswise first
RatAdd(p, q) ==
    LET g == GCD(p[2], q[2])
    IN  RatNorm(p[1] * (q[2] \div g) + q[1] * (p[2] \div g), (p[2] \div g) * q[2])
RatNeg(p) == <<0 - p[1], p[2]>>
RatSub(p, q) == RatAdd(p, RatNeg(q))
RatMul(p, q) ==
    LET g1 == GCD(Abs(p[1]), q[2])
        g2 == GCD(Abs(q[1]), p[2])
    IN  IF p[1] = 0 \/ q[1] = 0 THEN <<0, 1>>
        ELSE RatNorm((p[1] \div g1) * (q[1] \div g2), (p[2] \div g2) * (q[2] \div g1))
RatDiv(p, q) == RatMul(p, IF q[1] < 0 THEN <<0 - q[2], 0 - q[1]>> ELSE <<q[2], q[1]>>)
RatSign(p) == IF p[1] > 0 THEN 1 ELSE IF p[1] < 0 THEN -1 ELSE 0

----------------------------------------------------------------------------
(* Column names.                                                           *)

DaysCol == "# Days before expiration"
WorkersCol == "Active SOW workers"
BudgetCol == "Latest maximum budget"
SowIdCol == "SOW ID"
LabelCol == "Criticality"

Labels == {"BAJO", "MEDIO", "ALTO", "CRÍTICO"}

\* engineer_features: categorical_cols
categorical_cols == <<"supplier", "Business Unit", "Primary LOB", "currency">>

EncodedName(col) ==
    CASE col = "supplier" -> "supplier_encoded"
      [] col = "Business Unit" -> "Business Unit_encoded"
      [] col = "Primary LOB" -> "Primary LOB_encoded"
      [] col = "currency" -> "currency_encoded"

\* the feature columns with the encoded ones first
get_feature_columns_encoded_first ==
    << "supplier_encoded", "Business Unit_encoded", "Primary LOB_encoded",
       "currency_encoded", "days_to_expire", "is_expired", "is_critical_window",
       "is_high_priority_window", "has_workers", "worker_count",
       "worker_criticality_score", "budget_normalized", "budget_per_worker",
       "risk_score" >>

\* get_feature_columns
get_feature_columns ==
    << "days_to_expire", "is_expired", "is_critical_window",
       "is_high_priority_window", "has_workers", "worker_count",
       "worker_criticality_score", "budget_normalized", "budget_per_worker",
       "risk_score", "supplier_encoded", "Business Unit_encoded",
       "Primary LOB_encoded", "currency_encoded" >>

----------------------------------------------------------------------------
(* DataFrame helpers.                                                      *)

Range(s) == {s[i] : i \in DOMAIN s}

\* The same sequence, or function, with every element evaluated
Eager(s) == s \o << >>
EagerFn(f) == f @@ << >>

HasColumn(df, c) == c \in Range(df.columns)

\* row[c] := v, as df[c] = ... does for one row
RowSet(row, c, v) == (c :> v) @@ row

\* df[c] = values: overwrites the column, or appends it as the last column
SetColumn(df, c, values) ==
    [ index |-> df.index,
      columns |-> IF HasColumn(df, c) THEN df.columns ELSE Append(df.columns, c),
      rows |-> Eager([i \in DOMAIN df.rows |-> RowSet(df.rows[i], c, values[i])]) ]

\* df[cols]: the named columns, in the order of cols, same index
SelectColumns(df, cols) ==
    [ index |-> df.index,
      columns |-> cols,
      rows |-> Eager([i \in DOMAIN df.rows |->
                  EagerFn([k \in Range(cols) |-> df.rows[i][k]])]) ]

----------------------------------------------------------------------------
(* Label Rule Engine: create_criticality_label.                            *)

\* classify(row): the if/elif chain of the nested function
classify_lt30(row) ==
    LET days == row[DaysCol]
        workers == row[WorkersCol]
    IN  IF days < 30 /\ workers > 0 THEN "CRÍTICO"
        ELSE IF (days < 30 /\ workers = 0) \/ (31 <= days /\ days <= 60 /\ workers > 5)
             THEN "ALTO"
        ELSE IF 31 <= days /\ days <= 90 THEN "MEDIO"
        ELSE "BAJO"

\* the chain with its many-workers rule on the window 61..90
classify_alto_61_90(row) ==
    LET days == row[DaysCol]
        workers == row[WorkersCol]
    IN  IF days <= 30 /\ workers > 0 THEN "CRÍTICO"
        ELSE IF (days <= 30 /\ workers = 0) \/ (61 <= days /\ days <= 90 /\ workers > 5)
             THEN "ALTO"
        ELSE IF 31 <= days /\ days <= 90 THEN "MEDIO"
        ELSE "BAJO"

classify(row) ==
    LET days == row[DaysCol]
        workers == row[WorkersCol]
    IN  IF days <= 30 /\ workers > 0 THEN "CRÍTICO"
        ELSE IF (days <= 30 /\ workers = 0) \/ (31 <= days /\ days <= 60 /\ workers > 5)
             THEN "ALTO"
        ELSE IF 31 <= days /\ days <= 90 THEN "MEDIO"
        ELSE "BAJO"

\* create_criticality_label(df): df.apply(classify, axis=1) raises KeyError when
\* a row lacks one of the two columns; otherwise the column is set on df itself
\* (the caller's object) and that same object is returned.
create_criticality_label(df) ==
    IF ~HasColumn(df, DaysCol) \/ ~HasColumn(df, WorkersCol)
    THEN [ok |-> FALSE, err |-> "KeyError", df |-> df]
    ELSE [ok |-> TRUE, err |-> "",
          df |-> SetColumn(df, LabelCol, Eager([i \in DOMAIN df.rows |-> classify(df.rows[i])]))]

----------------------------------------------------------------------------
(* Feature Engineer: the derived numeric features of engineer_features.    *)

AsInt(b) == IF b THEN 1 ELSE 0

\* Series / Series (true division): a zero divisor gives inf or nan, no exception
TrueDiv(a, b) ==
    IF b = 0 THEN [finite |-> FALSE, q |-> <<0, 1>>]
    ELSE [finite |-> TRUE, q |-> RatNorm(a, b)]

\* np.where(cond, x, 0) for one element
NpWhere(cond, x) == IF cond THEN x.q ELSE <<0, 1>>

\* (30 - days) * has_workers * (1 + np.log1p(worker_count)), kept symbolic:
\* the value is coef * (1 + ln(1 + log1p_of)); a zero coef is written with
\* log1p_of = 0 so that equal values have equal representations
RiskScore(days, has_workers, worker_count) ==
    LET c == (30 - days) * has_workers
    IN  [coef |-> c, log1p_of |-> IF c = 0 THEN 0 ELSE worker_count]

Million == 1000000

\* lines 62-85 for one row: the ten numeric features, in the order the code adds them
NumericFeatures_le60open(row) ==
    LET days == row[DaysCol]
        workers == row[WorkersCol]
        budget == row[BudgetCol]
        crit == AsInt(days <= 30)
        hasw == AsInt(workers > 0)
    IN  [ days_to_expire |-> days,
          is_expired |-> AsInt(days < 0),
          is_critical_window |-> crit,
          is_high_priority_window |-> AsInt(days > 30 /\ days < 60),
          has_workers |-> hasw,
          worker_count |-> workers,
          worker_criticality_score |-> workers * crit,
          budget_normalized |-> RatNorm(budget, Million),
          budget_per_worker |-> NpWhere(workers > 0, TrueDiv(budget, workers)),
          risk_score |-> RiskScore(days, hasw, workers) ]

NumericFeatures(row) ==
    LET days == row[DaysCol]
        workers == row[WorkersCol]
        budget == row[BudgetCol]
        crit == AsInt(days <= 30)
        hasw == AsInt(workers > 0)
    IN  [ days_to_expire |-> days,
          is_expired |-> AsInt(days < 0),
          is_critical_window |-> crit,
          is_high_priority_window |-> AsInt(days > 30 /\ days <= 60),
          has_workers |-> hasw,
          worker_count |-> workers,
          worker_criticality_score |-> workers * crit,
          budget_normalized |-> RatNorm(budget, Million),
          budget_per_worker |-> NpWhere(workers > 0, TrueDiv(budget, workers)),
          risk_score |-> RiskScore(days, hasw, workers) ]

NumericNames ==
    << "days_to_expire", "is_expired", "is_critical_window",
       "is_high_priority_window", "has_workers", "worker_count",
       "worker_criticality_score", "budget_normalized", "budget_per_worker",
       "risk_score" >>

RECURSIVE AddColumns(_, _, _, _)
\* df with the columns names[k..] set from vals (vals[i] a record of row i's values)
AddColumns(df, names, vals, k) ==
    IF k > Len(names) THEN df
    ELSE AddColumns(SetColumn(df, names[k], Eager([i \in DOMAIN df.rows |-> vals[i][names[k]]])),
                    names, vals, k + 1)

----------------------------------------------------------------------------
(* Feature Engineer: the categorical encoders (sklearn LabelEncoder).      *)

\* The order of Python strings (by code point) on the category values used here
StrRank(s) ==
    CASE s = "Accenture" -> 1
      [] s = "Cloud Services" -> 2
      [] s = "Cognizant" -> 3
      [] s = "Data Engineering" -> 4
      [] s = "Deloitte" -> 5
      [] s = "EUR" -> 6
      [] s = "Finance" -> 7
      [] s = "Technology" -> 8
      [] s = "USD" -> 9

RECURSIVE SortedUnique(_)
\* np.unique of a set of strings: ascending, no duplicates
SortedUnique(S) ==
    IF S = {} THEN << >>
    ELSE LET m == CHOOSE x \in S : \A y \in S : StrRank(x) <= StrRank(y)
         IN  <<m>> \o SortedUnique(S \ {m})

\* the 0-based position of v in classes_
CodeOf(classes, v) == (CHOOSE i \in DOMAIN classes : classes[i] = v) - 1

NewLabelEncoder == [fitted |-> FALSE, classes_ |-> << >>]

\* LabelEncoder.fit: classes_ = np.unique(values)
EncoderFit(values) == [fitted |-> TRUE, classes_ |-> SortedUnique(Range(values))]

\* LabelEncoder.transform: NotFittedError before fit, ValueError on a value that
\* is not in classes_, else the codes
EncoderTransform(enc, values) ==
    IF ~enc.fitted THEN [ok |-> FALSE, err |-> "NotFittedError", codes |-> << >>]
    ELSE IF \E i \in DOMAIN values : values[i] \notin Range(enc.classes_)
    THEN [ok |-> FALSE, err |-> "ValueError", codes |-> << >>]
    ELSE [ok |-> TRUE, err |-> "",
          codes |-> Eager([i \in DOMAIN values |-> CodeOf(enc.classes_, values[i])])]

ColumnValues(df, c) == Eager([i \in DOMAIN df.rows |-> df.rows[i][c]])

RECURSIVE EncodeLoop(_, _, _)
\* lines 90-95: for col in categorical_cols[k..]; an exception leaves in encs
\* what the loop had stored so far
EncodeLoop(df, encs, k) ==
    IF k > Len(categorical_cols) THEN [ok |-> TRUE, err |-> "", df |-> df, encs |-> encs]
    ELSE
      LET col == categorical_cols[k]
      IN  IF col \notin DOMAIN encs
          THEN \* label_encoders[col] = LabelEncoder(), then fit_transform(df[col])
            LET created == (col :> NewLabelEncoder) @@ encs
            IN  IF ~HasColumn(df, col)
                THEN [ok |-> FALSE, err |-> "KeyError", df |-> df, encs |-> created]
                ELSE LET enc == EncoderFit(ColumnValues(df, col))
                         t == EncoderTransform(enc, ColumnValues(df, col))
                     IN  EncodeLoop(SetColumn(df, EncodedName(col), t.codes),
                                    (col :> enc) @@ encs, k + 1)
          ELSE \* label_encoders[col].transform(df[col])
            IF ~HasColumn(df, col)
            THEN [ok |-> FALSE, err |-> "KeyError", df |-> df, encs |-> encs]
            ELSE LET t == EncoderTransform(encs[col], ColumnValues(df, col))
                 IN  IF ~t.ok
                     THEN [ok |-> FALSE, err |-> t.err, df |-> df, encs |-> encs]
                     ELSE EncodeLoop(SetColumn(df, EncodedName(col), t.codes),
                                     encs, k + 1)

\* engineer_features(self, df): works on a copy of df; returns the engineered
\* frame and the label_encoders the call leaves behind
engineer_features(encs, df) ==
    IF ~HasColumn(df, DaysCol) \/ ~HasColumn(df, WorkersCol) \/ ~HasColumn(df, BudgetCol)
    THEN [ok |-> FALSE, err |-> "KeyError", df |-> df, encs |-> encs]
    ELSE LET vals == Eager([i \in DOMAIN df.rows |-> NumericFeatures(df.rows[i])])
         IN  EncodeLoop(AddColumns(df, NumericNames, vals, 1), encs, 1)

----------------------------------------------------------------------------
(* Feature Engineer: the scaler (sklearn StandardScaler).                  *)
(* A matrix cell is c * (1 + ln(1 + w)), written [c |-> rational, w |-> n];*)
(* an ordinary number has w = 0.  The fitted constants of a column are its *)
(* first two moments, kept per value of w: for a column of ordinary numbers*)
(* by[0].m1 is mean_ and by[0].m2 - by[0].m1^2 is var_ (scale_ = sqrt).    *)

NumCell(col, v) ==
    IF col = "risk_score" THEN [c |-> RatOfInt(v.coef), w |-> v.log1p_of]
    ELSE IF col \in {"budget_normalized", "budget_per_worker"} THEN [c |-> v, w |-> 0]
    ELSE [c |-> RatOfInt(v), w |-> 0]

RECURSIVE SumWhere(_, _, _, _)
\* the sum over rows i >= k with cells[i].w = w of c (pow = 1) or c^2 (pow = 2)
SumWhere(cells, w, pow, k) ==
    IF k > Len(cells) THEN <<0, 1>>
    ELSE LET x == cells[k].c
             t == IF cells[k].w # w THEN <<0, 1>>
                  ELSE IF pow = 1 THEN x ELSE RatMul(x, x)
         IN  RatAdd(t, SumWhere(cells, w, pow, k + 1))

ColumnMoments(cells) ==
    LET n == RatOfInt(Len(cells))
    IN  EagerFn([w \in {cells[i].w : i \in DOMAIN cells} |->
            [m1 |-> RatDiv(SumWhere(cells, w, 1, 1), n),
             m2 |-> RatDiv(SumWhere(cells, w, 2, 1), n)]])

IsPlain(by) == DOMAIN by = {0}
MeanOf(by) == by[0].m1
VarOf(by) == RatSub(by[0].m2, RatMul(by[0].m1, by[0].m1))

\* (x - mean_) / scale_, with scale_ = 1 for a constant column.  For a column of
\* ordinary numbers the value v is written by its sign and its square; else it
\* is left as the pair of the cell and the constants.
StdCell(x, by) ==
    IF IsPlain(by) /\ x.w = 0
    THEN LET d == RatSub(x.c, MeanOf(by))
             var == VarOf(by)
         IN  [sign |-> RatSign(d),
              sq |-> IF var = <<0, 1>> THEN RatMul(d, d) ELSE RatDiv(RatMul(d, d), var),
              sym |-> << >>]
    ELSE [sign |-> 0, sq |-> <<0, 1>>, sym |-> <<x, by>>]

NewStandardScaler == [fitted |-> FALSE, n_samples_seen_ |-> 0, moments |-> << >>]

MatrixColumn(X, j) ==
    Eager([i \in DOMAIN X.rows |-> NumCell(X.columns[j], X.rows[i][X.columns[j]])])

\* StandardScaler.fit(X): the constants are computed from X alone
ScalerFit(X) ==
    [fitted |-> TRUE, n_samples_seen_ |-> Len(X.rows),
     moments |-> Eager([j \in DOMAIN X.columns |-> ColumnMoments(MatrixColumn(X, j))])]

\* StandardScaler.transform(X): a 2-D array, rows and columns by position
ScalerTransform(sc, X) ==
    Eager([i \in DOMAIN X.rows |->
        Eager([j \in DOMAIN X.columns |->
            StdCell(NumCell(X.columns[j], X.rows[i][X.columns[j]]), sc.moments[j])])])

\* pd.DataFrame(array, columns=cols): a fresh RangeIndex 0..n-1
DataFrameOf(array, cols) ==
    [ index |-> Eager([i \in DOMAIN array |-> i - 1]),
      columns |-> cols,
      rows |-> Eager([i \in DOMAIN array |-> EagerFn([c \in Range(cols) |->
                  array[i][CHOOSE j \in DOMAIN cols : cols[j] = c]])]) ]

\* df[c]: a Series with the index of df
SeriesOf(df, c) == [index |-> df.index, values |-> ColumnValues(df, c)]

NoFrame == [index |-> << >>, columns |-> << >>, rows |-> << >>]
NoSeries == [index |-> << >>, values |-> << >>]

\* StandardScaler.partial_fit: the constants of the samples seen so far and of X
ScalerPartialFit(sc, X) ==
    IF ~sc.fitted THEN ScalerFit(X)
    ELSE
      LET new == ScalerFit(X)
          n1 == RatOfInt(sc.n_samples_seen_)
          n2 == RatOfInt(new.n_samples_seen_)
          n == RatAdd(n1, n2)
          At(by, w, f) == IF w \in DOMAIN by THEN by[w][f] ELSE <<0, 1>>
          Share(by, w, f, k) ==
              IF w \in DOMAIN by THEN RatDiv(RatMul(k, by[w][f]), n) ELSE <<0, 1>>
          Merge(a, b) ==
              EagerFn([w \in DOMAIN a \cup DOMAIN b |->
                  [m1 |-> RatAdd(Share(a, w, "m1", n1), Share(b, w, "m1", n2)),
                   m2 |-> RatAdd(Share(a, w, "m2", n1), Share(b, w, "m2", n2))]])
      IN  [fitted |-> TRUE,
           n_samples_seen_ |-> sc.n_samples_seen_ + new.n_samples_seen_,
           moments |-> Eager([j \in DOMAIN new.moments |->
                           Merge(sc.moments[j], new.moments[j])])]

\* prepare_for_training with the scaler fitted incrementally (partial_fit)
prepare_for_training_partial_fit(encs, sc, df) ==
    LET lab == create_criticality_label(df)
    IN  IF ~lab.ok
        THEN [ok |-> FALSE, err |-> lab.err, arg |-> df, encs |-> encs, scaler |-> sc,
              X |-> NoFrame, y |-> NoSeries, df |-> NoFrame]
        ELSE
          LET eng == engineer_features(encs, lab.df)
          IN  IF ~eng.ok
              THEN [ok |-> FALSE, err |-> eng.err, arg |-> lab.df, encs |-> eng.encs,
                    scaler |-> sc, X |-> NoFrame, y |-> NoSeries, df |-> NoFrame]
              ELSE
                LET feature_cols == get_feature_columns
                    X0 == SelectColumns(eng.df, feature_cols)
                    fitted == ScalerPartialFit(sc, X0)
                    X_scaled == ScalerTransform(fitted, X0)
                IN  [ok |-> TRUE, err |-> "", arg |-> lab.df, encs |-> eng.encs,
                     scaler |-> fitted,
                     X |-> DataFrameOf(X_scaled, feature_cols),
                     y |-> SeriesOf(eng.df, LabelCol),
                     df |-> eng.df]

\* df.drop_duplicates(): the first record of each group of equal records
DropDuplicates(df) ==
    LET keep == {i \in DOMAIN df.rows : \A j \in 1 .. (i - 1) : df.rows[j] # df.rows[i]}
        Pos(k) == CHOOSE i \in keep : Cardinality({j \in keep : j < i}) = k - 1
    IN  [index |-> Eager([k \in 1 .. Cardinality(keep) |-> df.index[Pos(k)]]),
         columns |-> df.columns,
         rows |-> Eager([k \in 1 .. Cardinality(keep) |-> df.rows[Pos(k)]])]

\* prepare_for_training on the records with duplicates dropped
prepare_for_training_dedup(encs, sc, df) ==
    LET lab == create_criticality_label(df)
    IN  IF ~lab.ok
        THEN [ok |-> FALSE, err |-> lab.err, arg |-> df, encs |-> encs, scaler |-> sc,
              X |-> NoFrame, y |-> NoSeries, df |-> NoFrame]
        ELSE
          LET eng == engineer_features(encs, DropDuplicates(lab.df))
          IN  IF ~eng.ok
              THEN [ok |-> FALSE, err |-> eng.err, arg |-> lab.df, encs |-> eng.encs,
                    scaler |-> sc, X |-> NoFrame, y |-> NoSeries, df |-> NoFrame]
              ELSE
                LET feature_cols == get_feature_columns
                    X0 == SelectColumns(eng.df, feature_cols)
                    fitted == ScalerFit(X0)
                    X_scaled == ScalerTransform(fitted, X0)
                IN  [ok |-> TRUE, err |-> "", arg |-> lab.df, encs |-> eng.encs,
                     scaler |-> fitted,
                     X |-> DataFrameOf(X_scaled, feature_cols),
                     y |-> SeriesOf(eng.df, LabelCol),
                     df |-> eng.df]

\* prepare_for_training(self, df).  arg is the caller's object as the call leaves
\* it; encs and scaler are the instance's state after the call.
prepare_for_training(encs, sc, df) ==
    LET lab == create_criticality_label(df)
    IN  IF ~lab.ok
        THEN [ok |-> FALSE, err |-> lab.err, arg |-> df, encs |-> encs, scaler |-> sc,
              X |-> NoFrame, y |-> NoSeries, df |-> NoFrame]
        ELSE
          LET eng == engineer_features(encs, lab.df)
          IN  IF ~eng.ok
              THEN [ok |-> FALSE, err |-> eng.err, arg |-> lab.df, encs |-> eng.encs,
                    scaler |-> sc, X |-> NoFrame, y |-> NoSeries, df |-> NoFrame]
              ELSE
                LET feature_cols == get_feature_columns
                    X0 == SelectColumns(eng.df, feature_cols)
                    fitted == ScalerFit(X0)
                    X_scaled == ScalerTransform(fitted, X0)
                IN  [ok |-> TRUE, err |-> "", arg |-> lab.df, encs |-> eng.encs,
                     scaler |-> fitted,
                     X |-> DataFrameOf(X_scaled, feature_cols),
                     y |-> SeriesOf(eng.df, LabelCol),
                     df |-> eng.df]

----------------------------------------------------------------------------
(* The calls on one SOWFeatureEngineering instance.                        *)

NoCall == [op |-> "none", input |-> NoFrame, ok |-> TRUE, err |-> "",
           out |-> NoFrame, X |-> NoFrame, y |-> NoSeries]

\* fe.create_criticality_label(d)
CreateLabelCall(d) ==
    LET r == create_criticality_label(d)
    IN  /\ caller_df' = r.df
        /\ fe_call' = [op |-> "create_criticality_label", input |-> d, ok |-> r.ok,
                       err |-> r.err, out |-> IF r.ok THEN r.df ELSE NoFrame,
                       X |-> NoFrame, y |-> NoSeries]
        /\ UNCHANGED <<label_encoders, scaler>>

\* fe.engineer_features(d)
EngineerCall(d) ==
    LET r == engineer_features(label_encoders, d)
    IN  /\ caller_df' = d
        /\ label_encoders' = r.encs
        /\ fe_call' = [op |-> "engineer_features", input |-> d, ok |-> r.ok,
                       err |-> r.err, out |-> IF r.ok THEN r.df ELSE NoFrame,
                       X |-> NoFrame, y |-> NoSeries]
        /\ UNCHANGED scaler

\* fe.prepare_for_training(d)
PrepareCall(d) ==
    LET r == prepare_for_training(label_encoders, scaler, d)
    IN  /\ caller_df' = r.arg
        /\ label_encoders' = r.encs
        /\ scaler' = r.scaler
        /\ fe_call' = [op |-> "prepare_for_training", input |-> d, ok |-> r.ok,
                       err |-> r.err, out |-> r.df, X |-> r.X, y |-> r.y]

\* SOWFeatureEngineering.__init__
FreshEngineer ==
    /\ label_encoders = << >>
    /\ scaler = NewStandardScaler
    /\ fe_call = NoCall
    /\ fe_history = << >>

----------------------------------------------------------------------------
(* Inputs.                                                                 *)

RawColumns == <<SowIdCol, DaysCol, WorkersCol, BudgetCol,
                "currency", "supplier", "Business Unit", "Primary LOB">>

RawRow(id, days, workers, budget, currency, supplier, bu, lob) ==
    (SowIdCol :> id) @@ (DaysCol :> days) @@ (WorkersCol :> workers) @@
    (BudgetCol :> budget) @@ ("currency" :> currency) @@ ("supplier" :> supplier) @@
    ("Business Unit" :> bu) @@ ("Primary LOB" :> lob)

\* pd.read_csv / pd.DataFrame(list of dicts): RangeIndex
FrameOfRows(rows) ==
    [index |-> Eager([i \in DOMAIN rows |-> i - 1]), columns |-> RawColumns, rows |-> rows]

\* Bounds of the label and feature formulas' inputs
MinDays == 6
MaxDays == 151
MaxWorkers == 8
MaxBudgetSteps == 2
BudgetStep == 450000

DaysRange == (0 - MinDays) .. MaxDays
WorkersRange == 0 .. MaxWorkers
BudgetRange == {k * BudgetStep : k \in 0 .. MaxBudgetSteps}

OneRowFrames ==
    { FrameOfRows(<< RawRow("SOW-2024-0001", d, w, b, "USD", "Accenture",
                            "Technology", "Cloud Services") >>) :
        d \in DaysRange, w \in WorkersRange, b \in BudgetRange }

\* A base table of SOW records; a dataset is a selection of its rows, each
\* carrying the index label it has in the table (df[mask], df.sort_values, ...)
BaseTable ==
    << RawRow("SOW-2024-CRIT-001", 28, 8, 4000, "USD", "Accenture",
              "Technology", "Data Engineering"),
       RawRow("SOW-2024-CRIT-004", 20, 0, 1000, "USD", "Deloitte",
              "Finance", "Cloud Services"),
       RawRow("SOW-2024-0001", 45, 1, 4000, "EUR", "Accenture",
              "Technology", "Cloud Services") >>

MaxRows == 2

RECURSIVE SeqsUpTo(_, _)
\* the non-empty sequences over S of length at most n
SeqsUpTo(S, n) ==
    IF n = 0 THEN {}
    ELSE LET shorter == SeqsUpTo(S, n - 1)
         IN  {<<x>> : x \in S} \cup shorter \cup
             {Append(q, x) : q \in shorter, x \in S}

Selection(picks) ==
    [index |-> Eager([i \in DOMAIN picks |-> picks[i] - 1]),
     columns |-> RawColumns,
     rows |-> Eager([i \in DOMAIN picks |-> BaseTable[picks[i]]])]

\* df.drop(columns=[c])
DropColumn(df, c) ==
    [index |-> df.index,
     columns |-> SelectSeq(df.columns, LAMBDA k : k # c),
     rows |-> Eager([i \in DOMAIN df.rows |->
                 EagerFn([k \in (DOMAIN df.rows[i]) \ {c} |-> df.rows[i][k]])])]

Selections == {Selection(p) : p \in SeqsUpTo(DOMAIN BaseTable, MaxRows)}

\* Datasets that lack a categorical column
BrokenDatasets ==
    {DropColumn(Selection(<<1>>), "supplier"), DropColumn(Selection(<<1>>), "currency")}

Datasets == Selections \cup BrokenDatasets

----------------------------------------------------------------------------
(* CriticalityClassifier.                                                  *)
(* An estimator object is [class, fitted, fitted_on]: None has class       *)
(* "NoneType"; a fitted estimator is determined by its class and by the    *)
(* training set it was fitted on (random_state is fixed).  training_date   *)
(* is the clock value of the run, 0 for None.  A dict is a function from   *)
(* its keys; {} is << >>.                                                  *)

\* What the scikit-learn of the installation does where its releases differ:
\* whether fit, given a DataFrame with named columns, sets feature_names_in_
\* (it does so before it validates the data, from release 1.0 on), and whether
\* a forest's predict validates X before it reaches for estimators_ (releases
\* up to 1.3) or after.  The estimator carries both as what it was built from.
Libraries ==
    { [names_at_fit |-> FALSE, checks_X_first |-> TRUE],
      [names_at_fit |-> TRUE, checks_X_first |-> TRUE],
      [names_at_fit |-> TRUE, checks_X_first |-> FALSE] }

NoneModel == [class |-> "NoneType", fitted |-> FALSE, fitted_on |-> 0,
              feature_names_in |-> FALSE, checks_X_first |-> FALSE]
NewEstimator(class, lib) ==
    [class |-> class, fitted |-> FALSE, fitted_on |-> 0,
     feature_names_in |-> FALSE, checks_X_first |-> lib.checks_X_first]

\* CriticalityClassifier.__init__(model_type)
NewClassifier(model_type) ==
    [model_type |-> model_type, model |-> NoneModel, feature_engineer |-> "None",
     training_date |-> 0, metrics |-> << >>]

ModelTypes == {"random_forest", "gradient_boosting", "xgboost"}

\* The data a train call is given, with the labels that occur in y_train and
\* the accuracies its evaluation measures (percent).  An empty training part
\* makes fit raise, an empty test part makes the evaluation raise.
TrainingSets ==
    { [id |-> 1, train_size |-> 80, test_size |-> 20, classes |-> Labels,
       train_accuracy |-> 100, test_accuracy |-> 95],
      [id |-> 2, train_size |-> 0, test_size |-> 0, classes |-> {},
       train_accuracy |-> 0, test_accuracy |-> 0],
      [id |-> 3, train_size |-> 80, test_size |-> 0, classes |-> Labels,
       train_accuracy |-> 100, test_accuracy |-> 0],
      [id |-> 4, train_size |-> 80, test_size |-> 20, classes |-> Labels \ {"BAJO"},
       train_accuracy |-> 100, test_accuracy |-> 95] }

\* train(self, X_train, y_train, X_test, y_test), at time now, with the
\* scikit-learn lib.  fit sets feature_names_in_ first, then validates the data
\* and raises on an empty training part.
train(c, ts, now, lib) ==
    LET chosen == IF c.model_type = "random_forest"
                  THEN NewEstimator("RandomForestClassifier", lib)
                  ELSE IF c.model_type = "gradient_boosting"
                  THEN NewEstimator("GradientBoostingClassifier", lib)
                  ELSE c.model
    IN  IF chosen.class = "NoneType"
        THEN [ok |-> FALSE, err |-> "AttributeError", clf |-> [c EXCEPT !.model = chosen]]
        ELSE
          LET named == [chosen EXCEPT !.feature_names_in = lib.names_at_fit]
              fitted == [named EXCEPT !.fitted = TRUE, !.fitted_on = ts.id]
          IN  IF ts.train_size = 0
              THEN [ok |-> FALSE, err |-> "ValueError", clf |-> [c EXCEPT !.model = named]]
              ELSE IF ts.test_size = 0
              THEN \* _evaluate: predict(X_test) raises before metrics is assigned
                   [ok |-> FALSE, err |-> "ValueError", clf |-> [c EXCEPT !.model = fitted]]
              ELSE [ok |-> TRUE, err |-> "",
                    clf |-> [c EXCEPT !.model = fitted,
                                      !.metrics = [train_accuracy |-> ts.train_accuracy,
                                                   test_accuracy |-> ts.test_accuracy,
                                                   train_size |-> ts.train_size,
                                                   test_size |-> ts.test_size],
                                      !.training_date = now]]

\* Feature matrices given to predict: sequences of feature-row identifiers
ProbeMatrices == {<<1>>, <<1, 2>>, << >>}

\* sklearn.utils.validation.check_is_fitted: the estimator has an attribute
\* whose name ends with "_"
check_is_fitted(model) == model.fitted \/ model.feature_names_in

\* the exception of model.predict(X) or model.predict_proba(X), "" when there
\* is none.  A forest tests check_is_fitted, then validates X and reaches for
\* estimators_, in the order of its release; gradient boosting validates X
\* (an X of no rows is refused), then tests check_is_fitted, then reaches for
\* init_.
PredictError(model, X) ==
    IF model.class = "NoneType" THEN "AttributeError"
    ELSE IF model.class = "RandomForestClassifier"
    THEN IF ~check_is_fitted(model) THEN "NotFittedError"
         ELSE IF ~model.fitted
         THEN IF X = << >> /\ model.checks_X_first THEN "ValueError"
              ELSE "AttributeError"
         ELSE IF X = << >> THEN "ValueError"
         ELSE ""
    ELSE IF X = << >> THEN "ValueError"
         ELSE IF ~check_is_fitted(model) THEN "NotFittedError"
         ELSE IF ~model.fitted THEN "AttributeError"
         ELSE ""

\* predict(self, X): one label per row; the label an estimator gives to a row
\* is written as the pair of the estimator and the row
predict(c, X) ==
    IF PredictError(c.model, X) # ""
    THEN [ok |-> FALSE, err |-> PredictError(c.model, X), out |-> << >>]
    ELSE [ok |-> TRUE, err |-> "",
          out |-> Eager([i \in DOMAIN X |->
                      [class |-> c.model.class, fitted_on |-> c.model.fitted_on,
                       row |-> X[i]]])]

\* model.classes_ of a fitted estimator: the labels of the y it was fitted on
ClassesOf(model) ==
    (CHOOSE ts \in TrainingSets : ts.id = model.fitted_on).classes

\* predict_proba(self, X): one row of probabilities per row of X, one column
\* per class of model.classes_
predict_proba(c, X) ==
    IF PredictError(c.model, X) # ""
    THEN [ok |-> FALSE, err |-> PredictError(c.model, X), out |-> << >>]
    ELSE [ok |-> TRUE, err |-> "",
          out |-> Eager([i \in DOMAIN X |->
                      [class |-> c.model.class, fitted_on |-> c.model.fitted_on,
                       row |-> X[i], columns |-> ClassesOf(c.model)]])]

----------------------------------------------------------------------------
(* Files.  A path is the sequence of its pieces, "/" and ".pkl" being      *)
(* pieces of their own: 'models/criticality_model.pkl' is                  *)
(* <<"models", "/", "criticality_model", ".pkl">>.                         *)

DefaultPath == <<"models", "/", "criticality_model", ".pkl">>
Paths ==
    { DefaultPath,
      <<"models", "/", "criticality_model">>,
      <<"criticality_model", ".pkl">> }

\* os.path.dirname (posixpath): the head up to the last "/", without its
\* trailing slashes unless it is made of slashes only; '' when there is no "/"
dirname(path) ==
    LET slashes == {i \in DOMAIN path : path[i] = "/"}
    IN  IF slashes = {} THEN << >>
        ELSE LET last == CHOOSE i \in slashes : \A j \in slashes : j <= i
                 head == SubSeq(path, 1, last)
                 others == {i \in DOMAIN head : head[i] # "/"}
             IN  IF others = {} THEN head
                 ELSE SubSeq(head, 1, CHOOSE i \in others : \A j \in others : j <= i)

\* filepath.replace('.pkl', '_metrics.json'): every occurrence
MetricsFileOf(path) ==
    Eager([i \in DOMAIN path |-> IF path[i] = ".pkl" THEN "_metrics.json" ELSE path[i]])

\* the directory and the directories above it
WithParents(dir) ==
    {SubSeq(dir, 1, k) :
        k \in {i \in DOMAIN dir : /\ i = Len(dir) \/ dir[i + 1] = "/"
                                  /\ dir[i] # "/" \/ i = 1}}

\* open(path, 'w') can create the file: its directory exists ('' is the cwd,
\* and the root is always there)
CanCreate(dsk, path) ==
    \/ dirname(path) = << >>
    \/ \A i \in DOMAIN dirname(path) : dirname(path)[i] = "/"
    \/ dirname(path) \in dsk.dirs

JoblibFile(package) == [format |-> "joblib", data |-> package]
JsonFile(obj) == [format |-> "json", data |-> obj]

EmptyDisk == [dirs |-> {}, files |-> << >>]

\* save_model(self, filepath): the disk the call leaves behind
save_model(c, dsk, filepath) ==
    IF dirname(filepath) = << >>
    THEN \* os.makedirs('')
         [ok |-> FALSE, err |-> "FileNotFoundError", disk |-> dsk]
    ELSE
      LET dirs1 == dsk.dirs \cup WithParents(dirname(filepath))
          model_package ==
              [model |-> c.model,
               model_type |-> c.model_type,
               training_date |-> c.training_date,
               metrics |-> c.metrics,
               \* hasattr(self.model, 'feature_names_in_'); << >> is None
               feature_names |-> IF c.model.feature_names_in THEN get_feature_columns
                                 ELSE << >>]
          dumped == [dirs |-> dirs1,
                     files |-> EagerFn((filepath :> JoblibFile(model_package)) @@ dsk.files)]
          metrics_file == MetricsFileOf(filepath)
      IN  IF ~CanCreate(dumped, metrics_file)
          THEN [ok |-> FALSE, err |-> "FileNotFoundError", disk |-> dumped]
          ELSE [ok |-> TRUE, err |-> "",
                disk |-> [dirs |-> dirs1,
                          files |-> EagerFn((metrics_file :> JsonFile(c.metrics))
                                            @@ dumped.files)]]

NoClassifier == NewClassifier("")

\* load_model(filepath): the classifier returned, or the exception
load_model(dsk, filepath) ==
    IF filepath \notin DOMAIN dsk.files
    THEN [ok |-> FALSE, err |-> "FileNotFoundError", classifier |-> NoClassifier]
    ELSE
      LET file == dsk.files[filepath]
          model_package == file.data
      IN  IF file.format # "joblib"
          THEN \* joblib.load: the unpickler finds no opcode at the first byte
               [ok |-> FALSE, err |-> "KeyError", classifier |-> NoClassifier]
          ELSE IF \E k \in {"model_type", "model", "training_date", "metrics"} :
                      k \notin DOMAIN model_package
          THEN [ok |-> FALSE, err |-> "KeyError", classifier |-> NoClassifier]
          ELSE IF "test_accuracy" \notin DOMAIN model_package["metrics"]
          THEN [ok |-> FALSE, err |-> "KeyError", classifier |-> NoClassifier]
          ELSE [ok |-> TRUE, err |-> "",
                classifier |-> [model_type |-> model_package["model_type"],
                                model |-> model_package["model"],
                                feature_engineer |-> "None",
                                training_date |-> model_package["training_date"],
                                metrics |-> model_package["metrics"]]]

----------------------------------------------------------------------------
(* The calls on one CriticalityClassifier, and the artifacts found on disk.*)

NoClfCall == [op |-> "none", path |-> << >>, X |-> << >>, ok |-> TRUE, err |-> "",
              classifier |-> NoClassifier, out |-> << >>]

\* classifier.train(...)
TrainCall(ts, lib) ==
    LET r == train(clf, ts, clock, lib)
    IN  /\ clf' = r.clf
        /\ clock' = clock + 1
        /\ clf_call' = [op |-> "train", path |-> << >>, X |-> << >>, ok |-> r.ok, err |-> r.err,
                        classifier |-> NoClassifier, out |-> << >>]
        /\ UNCHANGED disk

\* classifier.predict(X)
PredictCall(X) ==
    LET r == predict(clf, X)
    IN  /\ clf_call' = [op |-> "predict", path |-> << >>, X |-> X, ok |-> r.ok,
                        err |-> r.err, classifier |-> NoClassifier, out |-> r.out]
        /\ UNCHANGED <<clf, disk, clock>>

\* classifier.predict_proba(X)
PredictProbaCall(X) ==
    LET r == predict_proba(clf, X)
    IN  /\ clf_call' = [op |-> "predict_proba", path |-> << >>, X |-> X, ok |-> r.ok,
                        err |-> r.err, classifier |-> NoClassifier, out |-> r.out]
        /\ UNCHANGED <<clf, disk, clock>>

\* classifier.save_model(filepath)
SaveCall(filepath) ==
    LET r == save_model(clf, disk, filepath)
    IN  /\ disk' = r.disk
        /\ clf_call' = [op |-> "save_model", path |-> filepath, X |-> << >>, ok |-> r.ok,
                        err |-> r.err, classifier |-> NoClassifier, out |-> << >>]
        /\ UNCHANGED <<clf, clock>>

\* CriticalityClassifier.load_model(filepath)
LoadCall(filepath) ==
    LET r == load_model(disk, filepath)
    IN  /\ clf_call' = [op |-> "load_model", path |-> filepath, X |-> << >>, ok |-> r.ok,
                        err |-> r.err, classifier |-> r.classifier, out |-> << >>]
        /\ UNCHANGED <<clf, disk, clock>>

\* dict without the key k
Without(f, k) == EagerFn([x \in (DOMAIN f) \ {k} |-> f[x]])

\* Artifacts written by something other than save_model: a bundle of a fitted
\* estimator with one required key missing, with metrics that lack
\* test_accuracy, or with None for the model
ForeignPackages ==
    LET full == [model |-> [class |-> "RandomForestClassifier", fitted |-> TRUE,
                            fitted_on |-> 1, feature_names_in |-> TRUE,
                            checks_X_first |-> TRUE],
                 model_type |-> "random_forest",
                 training_date |-> 1,
                 metrics |-> [train_accuracy |-> 100, test_accuracy |-> 95,
                              train_size |-> 80, test_size |-> 20],
                 feature_names |-> get_feature_columns]
    IN  {Without(full, k) : k \in {"model", "model_type", "training_date", "metrics"}}
        \cup {[full EXCEPT !.metrics = Without(full.metrics, "test_accuracy")],
              [full EXCEPT !.model = NoneModel, !.feature_names = << >>]}

InitialDisks ==
    {EmptyDisk} \cup
    {[dirs |-> {dirname(DefaultPath)},
      files |-> EagerFn(DefaultPath :> JoblibFile(pkg))] : pkg \in ForeignPackages}

\* no classifier in use
IdleClassifier ==
    /\ clf = NewClassifier("random_forest")
    /\ disk = EmptyDisk
    /\ clock = 1
    /\ clf_call = NoClfCall

\* no step of the training script taken
NoMainCall == [op |-> "none", input |-> << >>, ok |-> TRUE, err |-> "", out |-> << >>]
IdleMain == main_call = NoMainCall

\* the alerting service with an empty table, before any request
NoAppCall == [op |-> "none", input |-> << >>, arg |-> << >>, ok |-> TRUE, err |-> "",
              action |-> "", sow_id |-> "", emailed |-> FALSE]
IdleApp ==
    /\ db = << >>
    /\ outbox = << >>
    /\ app_call = NoAppCall
    /\ in_flight = << >>

----------------------------------------------------------------------------
(* The alerting service: crud.py and process_sow_record.                   *)

\* Python's None as a value of a record
PyNone == "<None>"

KEY_MAPPING ==
    ("SOW ID" :> "sow_id") @@
    ("# Days before expiration" :> "days_before_expiration") @@
    ("SOW Status" :> "sow_status") @@
    ("SOW title" :> "sow_title") @@
    ("Contract Id" :> "contract_id") @@
    ("Active SOW workers" :> "active_sow_workers") @@
    ("Start Date" :> "start_date") @@
    ("End date" :> "end_date") @@
    ("Latest maximum budget" :> "latest_maximum_budget") @@
    ("currency" :> "currency") @@
    ("supplier" :> "supplier") @@
    ("Business Unit" :> "business_unit") @@
    ("Primary LOB" :> "primary_lob") @@
    ("SOW owner" :> "sow_owner") @@
    ("risk" :> "risk") @@
    ("status" :> "status")

\* dict.get(key), with None for a key that is absent
Get(d, key) == IF key \in DOMAIN d THEN d[key] ELSE PyNone

\* d[key] = value
SetItem(d, key, value) == EagerFn((key :> value) @@ d)

\* the key of the raw record that KEY_MAPPING sends to a column
KeyOfColumn ==
    EagerFn([col \in {KEY_MAPPING[key] : key \in DOMAIN KEY_MAPPING} |->
                CHOOSE key \in DOMAIN KEY_MAPPING : KEY_MAPPING[key] = col])

normalize_sow_data(raw_dict) ==
    EagerFn([col \in {KEY_MAPPING[key] : key \in DOMAIN raw_dict \cap DOMAIN KEY_MAPPING} |->
                raw_dict[KeyOfColumn[col]]])

\* s.strip().lower(), on the strings the records here carry
StripLower(s) ==
    CASE s \in {"high", "HIGH", " High "} -> "high"
      [] s \in {"flagged", "FLAGGED", " Flagged"} -> "flagged"
      [] s \in {"healthy", "Healthy"} -> "healthy"
      [] s \in {"low", "Low"} -> "low"
      [] OTHER -> s

\* (value or "")
OrEmpty(value) == IF value = PyNone THEN "" ELSE value

is_high_risk_or_status(risk, status) ==
    \/ StripLower(OrEmpty(risk)) = "high"
    \/ StripLower(OrEmpty(status)) = "flagged"

\* the fields of CreateSOWRequest, which are the columns of the table but id
RequestFields == {KEY_MAPPING[key] : key \in DOMAIN KEY_MAPPING}

\* the fields of type str, the ones that carry a None in the records here
StrFields ==
    {"sow_id", "sow_status", "sow_title", "contract_id", "currency", "supplier",
     "business_unit", "primary_lob", "sow_owner", "risk", "status"}

\* db.query(SOW).filter(SOW.sow_id == sow_id).first(): the position of the row, 0 for None
FirstWithSowId(rows, sow_id) ==
    IF \E i \in DOMAIN rows : rows[i]["sow_id"] = sow_id
    THEN CHOOSE i \in DOMAIN rows :
             /\ rows[i]["sow_id"] = sow_id
             /\ \A j \in DOMAIN rows : rows[j]["sow_id"] = sow_id => i <= j
    ELSE 0

NoSow == << >>

\* lines 53-61: the row at position existing was loaded as loaded; the commit
\* writes the attributes whose value the call has changed
update_sow(rows, normalized, existing, loaded) ==
    LET changed == {col \in {"risk", "status"} \cap DOMAIN normalized :
                       normalized[col] # loaded[col]}
        updated == EagerFn([col \in DOMAIN rows[existing] |->
                               IF col \in changed THEN normalized[col]
                               ELSE rows[existing][col]])
    IN  \* the columns are NOT NULL: the commit of a None raises
        IF \E col \in changed : normalized[col] = PyNone
        THEN [ok |-> FALSE, err |-> "IntegrityError", db |-> rows,
              sow_obj |-> NoSow, action |-> ""]
        ELSE [ok |-> TRUE, err |-> "",
              db |-> Eager([rows EXCEPT ![existing] = updated]),
              sow_obj |-> updated, action |-> "updated"]

\* lines 63-69 on a table without the unique constraint on sow_id
create_sow_no_unique(rows, normalized) ==
    IF \/ RequestFields # DOMAIN normalized
       \/ \E col \in StrFields \cap DOMAIN normalized : normalized[col] = PyNone
    THEN [ok |-> FALSE, err |-> "ValidationError", db |-> rows,
          sow_obj |-> NoSow, action |-> ""]
    ELSE
      LET new_sow == SetItem(normalized, "id", Len(rows) + 1)
      IN  [ok |-> TRUE, err |-> "", db |-> Append(rows, new_sow),
           sow_obj |-> new_sow, action |-> "created"]

\* lines 63-69: CreateSOWRequest(**normalized), where every field is required
\* and typed, then the insertion, which the unique constraint on sow_id refuses
\* when a row with the sow_id has been committed since the query
create_sow(rows, normalized) ==
    IF \/ RequestFields # DOMAIN normalized
       \/ \E col \in StrFields \cap DOMAIN normalized : normalized[col] = PyNone
    THEN [ok |-> FALSE, err |-> "ValidationError", db |-> rows,
          sow_obj |-> NoSow, action |-> ""]
    ELSE IF FirstWithSowId(rows, normalized["sow_id"]) # 0
    THEN [ok |-> FALSE, err |-> "IntegrityError", db |-> rows,
          sow_obj |-> NoSow, action |-> ""]
    ELSE
      LET new_sow == SetItem(normalized, "id", Len(rows) + 1)
      IN  [ok |-> TRUE, err |-> "", db |-> Append(rows, new_sow),
           sow_obj |-> new_sow, action |-> "created"]

\* lines 47-69, on the record as normalize_sow_data has returned it
create_or_update_normalized(rows, normalized) ==
    LET sow_id == Get(normalized, "sow_id")
        existing == FirstWithSowId(rows, sow_id)
    IN  IF sow_id = PyNone \/ sow_id = ""
        THEN [ok |-> FALSE, err |-> "ValueError", db |-> rows, sow_obj |-> NoSow,
              action |-> ""]
        ELSE IF existing # 0
        THEN update_sow(rows, normalized, existing, rows[existing])
        ELSE create_sow(rows, normalized)

\* create_or_update_sow(db, raw_sow_dict) on the table rows: the table it
\* leaves, and the object and action it returns unless it raises
create_or_update_sow(rows, raw_sow_dict) ==
    CHOOSE outcome \in {create_or_update_normalized(rows, normalized) :
                           normalized \in {normalize_sow_data(raw_sow_dict)}} : TRUE

\* lines 110-121: the copy of the record, with the status it is given when it
\* has none
\* lines 113-122 with the risk compared as it stands
with_default_status_exact(raw_sow_dict) ==
    LET risk_val == OrEmpty(Get(raw_sow_dict, "risk"))
    IN  IF "status" \notin DOMAIN raw_sow_dict
        THEN SetItem(raw_sow_dict, "status",
                     IF risk_val = "high" THEN "flagged" ELSE "healthy")
        ELSE raw_sow_dict

with_default_status(raw_sow_dict) ==
    LET risk_val == StripLower(OrEmpty(Get(raw_sow_dict, "risk")))
    IN  IF "status" \notin DOMAIN raw_sow_dict
        THEN SetItem(raw_sow_dict, "status",
                     IF risk_val = "high" THEN "flagged" ELSE "healthy")
        ELSE raw_sow_dict

\* lines 128-129 without the test of the action
should_alert_any_action(r) ==
    is_high_risk_or_status(r.sow_obj["risk"], r.sow_obj["status"])

\* lines 128-129: the row was created and has risk "high" or status "flagged"
should_alert(r) ==
    /\ r.action = "created"
    /\ is_high_risk_or_status(r.sow_obj["risk"], r.sow_obj["status"])

\* lines 124-180, after create_or_update_sow has come to r: the email for a
\* created row with risk "high" or status "flagged", generated if llm_up and
\* sent if smtp_up.  A call that raises has still left what it committed.
alert_if_created(r, sent, arg, llm_up, smtp_up) ==
    IF ~r.ok
    THEN [ok |-> FALSE, err |-> r.err, arg |-> arg, db |-> r.db, outbox |-> sent,
          sow_obj |-> NoSow, action |-> "", emailed |-> FALSE]
    ELSE IF should_alert(r)
    THEN IF ~llm_up
         THEN [ok |-> FALSE, err |-> "ConnectionError", arg |-> arg, db |-> r.db,
               outbox |-> sent, sow_obj |-> NoSow, action |-> "",
               emailed |-> FALSE]
         ELSE IF ~smtp_up
         THEN [ok |-> FALSE, err |-> "SMTPException", arg |-> arg, db |-> r.db,
               outbox |-> sent, sow_obj |-> NoSow, action |-> "",
               emailed |-> FALSE]
         ELSE [ok |-> TRUE, err |-> "", arg |-> arg, db |-> r.db,
               outbox |-> Append(sent, [sow_id |-> r.sow_obj["sow_id"],
                                        via |-> "process_sow_record"]),
               sow_obj |-> r.sow_obj, action |-> r.action, emailed |-> TRUE]
    ELSE [ok |-> TRUE, err |-> "", arg |-> arg, db |-> r.db, outbox |-> sent,
          sow_obj |-> r.sow_obj, action |-> r.action, emailed |-> FALSE]

\* process_sow_record(db, raw_sow_dict) when no other request comes between its
\* steps, on the table rows and the emails sent so far; llm_up and smtp_up
\* tell whether email_chain.invoke and send_email get through.  arg is the
\* caller's dictionary as the call leaves it.
process_sow_record(rows, sent, raw_sow_dict, llm_up, smtp_up) ==
    CHOOSE outcome \in
        {alert_if_created(r, sent, raw_sow_dict, llm_up, smtp_up) :
            r \in {create_or_update_sow(rows, with_default_status(raw_sow_dict))}} : TRUE

----------------------------------------------------------------------------
(* The requests of the service.  The endpoints are run in a thread pool,   *)
(* each request with a session of its own, and sqlite holds no lock        *)
(* between a session's query and its commit: a call is a sequence of       *)
(* steps, and the steps of the requests interleave.  upload_sows and main  *)
(* hand the one session of the request to process_sow_record for every     *)
(* record of the list, in order, and stop at the first exception.          *)
(* in_flight[q] is the request q: the call it is in (what it was given,    *)
(* what its query returned), the records still to come (rest), the         *)
(* objects its session holds loaded, by primary key (session: db.commit()  *)
(* expires every object, db.refresh loads one), and how far it has come ("next": the call on the next record *)
(* is to begin, "queried": the query of crud.py line 51 is done,           *)
(* "committed": db.commit() is done and the object is to be refreshed,     *)
(* "alerting": the refreshed row asks for an email, which is to be         *)
(* generated, "generated": the LLM has answered and the email is to be     *)
(* sent).                                                                  *)

\* the request q between two records of its list
BetweenCalls(op, rest, session) ==
    [op |-> op, input |-> << >>, arg |-> << >>, normalized |-> << >>,
     stage |-> "next", existing |-> 0, loaded |-> NoSow, sow_obj |-> NoSow,
     action |-> "", rest |-> rest, session |-> session]

\* the requests in flight when the call of request q has returned (ok) or
\* raised: the loop goes on to the next record, or the request is over
AfterCall(q, ok) ==
    IF ok /\ in_flight[q].rest # << >>
    THEN EagerFn([in_flight EXCEPT
                     ![q] = BetweenCalls(in_flight[q].op, in_flight[q].rest,
                                         in_flight[q].session)])
    ELSE Without(in_flight, q)

EndOfCall(q, ok, err, emailed) ==
    /\ app_call' = [op |-> in_flight[q].op, input |-> in_flight[q].input,
                    arg |-> in_flight[q].arg, ok |-> ok, err |-> err,
                    action |-> IF ok THEN in_flight[q].action ELSE "",
                    sow_id |-> IF ok THEN in_flight[q].sow_obj["sow_id"] ELSE "",
                    emailed |-> emailed]
    /\ in_flight' = AfterCall(q, ok)

\* crud.py lines 45-51 on sow_data, for the call op(raw_sow_dict) of request q
\* with the records rest to follow: the call raises for want of a sow_id, or
\* holds what the query returned, which for a row the session holds already
\* is the object as the session has it, not the row as the table has it now
QueryStep(q, op, raw_sow_dict, sow_data, rest, session) ==
    \E normalized \in {normalize_sow_data(sow_data)} :
      \E sow_id \in {Get(normalized, "sow_id")} :
        IF sow_id = PyNone \/ sow_id = ""
        THEN /\ app_call' = [op |-> op, input |-> raw_sow_dict,
                             arg |-> raw_sow_dict, ok |-> FALSE,
                             err |-> "ValueError", action |-> "",
                             sow_id |-> "", emailed |-> FALSE]
             /\ in_flight' = Without(in_flight, q)
             /\ UNCHANGED <<db, outbox>>
        ELSE \E existing \in {FirstWithSowId(db, sow_id)} :
             \E loaded \in {IF existing = 0 THEN NoSow
                            ELSE IF existing \in DOMAIN session THEN session[existing]
                            ELSE db[existing]} :
             /\ in_flight' =
                   EagerFn((q :> [op |-> op, input |-> raw_sow_dict,
                                  arg |-> raw_sow_dict, normalized |-> normalized,
                                  stage |-> "queried", existing |-> existing,
                                  loaded |-> loaded,
                                  sow_obj |-> NoSow, action |-> "",
                                  rest |-> rest,
                                  session |-> IF existing = 0 THEN session
                                              ELSE EagerFn((existing :> loaded)
                                                           @@ session)])
                           @@ in_flight)
             /\ app_call' = NoAppCall
             /\ UNCHANGED <<db, outbox>>

\* create_or_update_sow(db, raw_sow_dict) by request q with a new session, up
\* to its query
BeginCall(q, raw_sow_dict) ==
    QueryStep(q, "create_or_update_sow", raw_sow_dict, raw_sow_dict, << >>, << >>)

\* process_sow_record(db, raw_sow_dict) on the session that holds the objects
\* session, by request q with the records rest to follow, up to the query of
\* the create_or_update_sow it calls
BeginProcess(q, raw_sow_dict, rest, session) ==
    QueryStep(q, "process_sow_record", raw_sow_dict,
              with_default_status(raw_sow_dict), rest, session)

\* upload_sows(sows) and main() by request q: a new session, and the first
\* pass of the loop up to the query
BeginUpload(q, sows) == BeginProcess(q, Head(sows), Tail(sows), << >>)

\* the next pass of the loop of request q, up to the query
NextRecord(q) ==
    /\ in_flight[q].stage = "next"
    /\ BeginProcess(q, Head(in_flight[q].rest), Tail(in_flight[q].rest),
                    in_flight[q].session)

\* crud.py lines 53-59 and 63-67 by request q, on the table as it is now: the
\* commit is made, which ends the transaction and expires the objects of the
\* session, or it raises with nothing written
CommitCall(q) ==
    /\ in_flight[q].stage = "queried"
    /\ \E r \in {IF in_flight[q].existing # 0
                 THEN update_sow(db, in_flight[q].normalized, in_flight[q].existing,
                                 in_flight[q].loaded)
                 ELSE create_sow(db, in_flight[q].normalized)} :
          /\ db' = r.db
          /\ IF ~r.ok
             THEN /\ app_call' = [op |-> in_flight[q].op,
                                  input |-> in_flight[q].input,
                                  arg |-> in_flight[q].arg, ok |-> FALSE,
                                  err |-> r.err, action |-> "", sow_id |-> "",
                                  emailed |-> FALSE]
                  /\ in_flight' = Without(in_flight, q)
             ELSE /\ in_flight' = EagerFn([in_flight EXCEPT ![q].stage = "committed",
                                                            ![q].sow_obj = r.sow_obj,
                                                            ![q].action = r.action,
                                                            ![q].session = << >>])
                  /\ app_call' = NoAppCall
    /\ UNCHANGED outbox

\* crud.py lines 60-61 and 68-69 by request q, and main.py lines 128-129:
\* db.refresh loads the row of the object as the table holds it now, and
\* create_or_update_sow returns it; in process_sow_record the call goes on to
\* the email if the action is "created" and the refreshed row asks for one
RefreshCall(q) ==
    /\ in_flight[q].stage = "committed"
    /\ \E r \in {[sow_obj |-> db[in_flight[q].sow_obj["id"]],
                  action |-> in_flight[q].action]} :
       \E session \in {EagerFn(r.sow_obj["id"] :> r.sow_obj)} :
          IF in_flight[q].op = "process_sow_record" /\ should_alert(r)
          THEN /\ in_flight' = EagerFn([in_flight EXCEPT ![q].stage = "alerting",
                                                         ![q].sow_obj = r.sow_obj,
                                                         ![q].session = session])
               /\ app_call' = NoAppCall
          ELSE /\ app_call' = [op |-> in_flight[q].op,
                               input |-> in_flight[q].input,
                               arg |-> in_flight[q].arg, ok |-> TRUE,
                               err |-> "", action |-> r.action,
                               sow_id |-> r.sow_obj["sow_id"],
                               emailed |-> FALSE]
               /\ in_flight' =
                     IF in_flight[q].rest # << >>
                     THEN EagerFn([in_flight EXCEPT
                                      ![q] = BetweenCalls(in_flight[q].op,
                                                          in_flight[q].rest, session)])
                     ELSE Without(in_flight, q)
    /\ UNCHANGED <<db, outbox>>

\* main.py lines 131-152 (serve/app.py lines 105-122): email_chain.invoke, an
\* HTTP request to the LLM, which answers if llm_up and raises if not
InvokeChain(q, llm_up) ==
    /\ in_flight[q].stage = "alerting"
    /\ IF llm_up
       THEN /\ in_flight' = EagerFn([in_flight EXCEPT ![q].stage = "generated"])
            /\ app_call' = NoAppCall
       ELSE EndOfCall(q, FALSE, "ConnectionError", FALSE)
    /\ UNCHANGED <<db, outbox>>

\* main.py line 172 (serve/app.py line 135): send_email, which delivers if
\* smtp_up and raises if not
SendEmail(q, smtp_up) ==
    /\ in_flight[q].stage = "generated"
    /\ IF smtp_up
       THEN /\ outbox' = Append(outbox, [sow_id |-> in_flight[q].sow_obj["sow_id"],
                                         via |-> in_flight[q].op])
            /\ EndOfCall(q, TRUE, "", TRUE)
       ELSE /\ EndOfCall(q, FALSE, "SMTPException", FALSE)
            /\ UNCHANGED outbox
    /\ UNCHANGED db

\* generate_email(sow_id) by request q, up to its query: 404 when no row has
\* the sow_id; else the email is generated and sent for the row, whatever its
\* risk and whichever call stored it
BeginGenerate(q, sow_id) ==
    \E existing \in {FirstWithSowId(db, sow_id)} :
      IF existing = 0
      THEN /\ app_call' = [op |-> "generate_email", input |-> << >>,
                           arg |-> << >>, ok |-> FALSE, err |-> "HTTPException",
                           action |-> "", sow_id |-> "", emailed |-> FALSE]
           /\ UNCHANGED <<db, outbox, in_flight>>
      ELSE /\ in_flight' =
                 EagerFn((q :> [op |-> "generate_email", input |-> << >>,
                                arg |-> << >>, normalized |-> << >>,
                                stage |-> "alerting", existing |-> existing,
                                loaded |-> db[existing], sow_obj |-> db[existing],
                                action |-> "", rest |-> << >>,
                                session |-> EagerFn(existing :> db[existing])])
                         @@ in_flight)
           /\ app_call' = NoAppCall
           /\ UNCHANGED <<db, outbox>>

\* Records as they are uploaded: one complete record, with the SOW ID, the
\* title, the risk and the status varied or left out, and the same without a
\* required field or with a key that KEY_MAPPING does not know.
BaseRecord ==
    ("SOW ID" :> "SOW-2024-0001") @@
    ("# Days before expiration" :> 45) @@
    ("SOW Status" :> "Active") @@
    ("SOW title" :> "Support") @@
    ("Contract Id" :> "CT-1") @@
    ("Active SOW workers" :> 1) @@
    ("Start Date" :> "2024-01-01") @@
    ("End date" :> "2024-12-31") @@
    ("Latest maximum budget" :> 4000) @@
    ("currency" :> "EUR") @@
    ("supplier" :> "Accenture") @@
    ("Business Unit" :> "Technology") @@
    ("Primary LOB" :> "Cloud Services") @@
    ("SOW owner" :> "owner@example.com") @@
    ("risk" :> "low") @@
    ("status" :> "healthy")

Absent == "<absent>"

\* the record d with key set to value, or without key when value is Absent
With(d, key, value) ==
    IF value = Absent THEN Without(d, key) ELSE SetItem(d, key, value)

SowIds == {"SOW-2024-0001", "SOW-2024-CRIT-001"}

----------------------------------------------------------------------------
(* The classifier: _print_feature_importance.                              *)

top_n == 10

RECURSIVE StableArgsort(_, _)
\* the positions in todo by ascending score, equal scores by position
StableArgsort(importances, todo) ==
    IF todo = {} THEN << >>
    ELSE LET least == CHOOSE i \in todo :
                          \A j \in todo :
                              \/ importances[i] < importances[j]
                              \/ (importances[i] = importances[j] /\ i <= j)
         IN  <<least>> \o StableArgsort(importances, todo \ {least})

\* np.argsort(importances): the default sort is not a stable one, so every
\* ascending arrangement is an outcome; they differ in the places of equal
\* scores only.
ArgsortOutcomes(importances) ==
    LET s == StableArgsort(importances, DOMAIN importances)
        tied == {k \in DOMAIN s :
                    \E m \in DOMAIN s :
                        m # k /\ importances[s[m]] = importances[s[k]]}
        shuffles == {q \in [tied -> tied] :
                        /\ \A a \in tied : \A b \in tied : a # b => q[a] # q[b]
                        /\ \A k \in tied : importances[s[q[k]]] = importances[s[k]]}
    IN  {Eager([k \in DOMAIN s |-> IF k \in tied THEN s[q[k]] ELSE s[k]]) :
            q \in shuffles}

\* s[::-1]
Reversed(s) == Eager([i \in 1 .. Len(s) |-> s[Len(s) + 1 - i]])

\* s[:n]
Prefix(s, n) == SubSeq(s, 1, IF n < Len(s) THEN n ELSE Len(s))

\* _print_feature_importance(feature_names), with importances the model's
\* feature_importances_ and order the outcome of np.argsort on them: the lines
\* printed.
print_feature_importance(feature_names, importances, order) ==
    LET indices == Prefix(Reversed(order), top_n)
    IN  Eager([i \in DOMAIN indices |->
                  [rank |-> i, name |-> feature_names[indices[i]],
                   importance |-> importances[indices[i]]]])

PrintImportanceCall(importances, order) ==
    main_call' = [op |-> "_print_feature_importance", input |-> importances,
                  ok |-> TRUE, err |-> "",
                  out |-> print_feature_importance(get_feature_columns,
                                                   importances, order)]

----------------------------------------------------------------------------
(* The training script: validate_critical_cases.                           *)

TitleCol == "SOW title"

\* sow_id.str.contains('CRIT'), on the SOW IDs used here
ContainsCRIT(sow_id) == sow_id \in {"SOW-2024-CRIT-001", "SOW-2024-CRIT-004"}

\* df[mask]: the rows at the given positions, with their index labels
SelectRows(df, positions) ==
    [index |-> Eager([k \in DOMAIN positions |-> df.index[positions[k]]]),
     columns |-> df.columns,
     rows |-> Eager([k \in DOMAIN positions |-> df.rows[positions[k]]])]

RECURSIVE CritPositions(_, _)
\* the positions i >= k, in order, of the rows whose SOW ID contains 'CRIT'
CritPositions(rows, k) ==
    IF k > Len(rows) THEN << >>
    ELSE (IF ContainsCRIT(rows[k][SowIdCol]) THEN <<k>> ELSE << >>)
         \o CritPositions(rows, k + 1)

NoReport == [reported |-> << >>, has_accuracy |-> FALSE, accuracy |-> <<0, 1>>,
             warning |-> FALSE, X_critical |-> NoFrame]

\* accuracy < 75 with <= in its place
validate_critical_cases_le75(c, df_processed, right) ==
    IF ~HasColumn(df_processed, SowIdCol)
    THEN [ok |-> FALSE, err |-> "KeyError", df |-> df_processed, report |-> NoReport]
    ELSE
      LET critical_sows ==
              SelectRows(df_processed, CritPositions(df_processed.rows, 1))
          n == Len(critical_sows.rows)
      IN  IF n = 0
          THEN [ok |-> TRUE, err |-> "", df |-> df_processed, report |-> NoReport]
          ELSE IF \E j \in DOMAIN get_feature_columns :
                      ~HasColumn(df_processed, get_feature_columns[j])
          THEN [ok |-> FALSE, err |-> "KeyError", df |-> df_processed, report |-> NoReport]
          ELSE
            LET X_critical == SelectColumns(critical_sows, get_feature_columns)
                p == predict(c, X_critical.rows)
            IN  IF ~p.ok
                THEN [ok |-> FALSE, err |-> p.err, df |-> df_processed, report |-> NoReport]
                ELSE IF \E col \in {TitleCol, DaysCol, WorkersCol, LabelCol} :
                            ~HasColumn(df_processed, col)
                THEN [ok |-> FALSE, err |-> "KeyError", df |-> df_processed,
                      report |-> NoReport]
                ELSE
                  LET results ==
                          Eager([i \in 1 .. n |->
                              [sow_id |-> critical_sows.rows[i][SowIdCol],
                               expected |-> critical_sows.rows[i][LabelCol],
                               predicted |-> p.out[i],
                               hit |-> critical_sows.rows[i][SowIdCol] \in right]])
                      hits == Cardinality({i \in 1 .. n : results[i].hit})
                      accuracy == RatMul(RatNorm(hits, n), <<100, 1>>)
                  IN  [ok |-> TRUE, err |-> "", df |-> df_processed,
                       report |-> [reported |-> results, has_accuracy |-> TRUE,
                                   accuracy |-> accuracy,
                                   warning |-> accuracy[1] <= 75 * accuracy[2],
                                   X_critical |-> X_critical]]

\* validate_critical_cases(classifier, df_processed, fe).  right is the set of
\* SOW IDs whose record the estimator labels as its Criticality column says;
\* df is df_processed as the call leaves it; report is what is printed.
validate_critical_cases(c, df_processed, right) ==
    IF ~HasColumn(df_processed, SowIdCol)
    THEN [ok |-> FALSE, err |-> "KeyError", df |-> df_processed, report |-> NoReport]
    ELSE
      LET critical_sows ==
              SelectRows(df_processed, CritPositions(df_processed.rows, 1))
          n == Len(critical_sows.rows)
      IN  IF n = 0
          THEN [ok |-> TRUE, err |-> "", df |-> df_processed, report |-> NoReport]
          ELSE IF \E j \in DOMAIN get_feature_columns :
                      ~HasColumn(df_processed, get_feature_columns[j])
          THEN [ok |-> FALSE, err |-> "KeyError", df |-> df_processed, report |-> NoReport]
          ELSE
            LET X_critical == SelectColumns(critical_sows, get_feature_columns)
                p == predict(c, X_critical.rows)
            IN  IF ~p.ok
                THEN [ok |-> FALSE, err |-> p.err, df |-> df_processed, report |-> NoReport]
                ELSE IF \E col \in {TitleCol, DaysCol, WorkersCol, LabelCol} :
                            ~HasColumn(df_processed, col)
                THEN [ok |-> FALSE, err |-> "KeyError", df |-> df_processed,
                      report |-> NoReport]
                ELSE
                  LET results ==
                          Eager([i \in 1 .. n |->
                              [sow_id |-> critical_sows.rows[i][SowIdCol],
                               expected |-> critical_sows.rows[i][LabelCol],
                               predicted |-> p.out[i],
                               hit |-> critical_sows.rows[i][SowIdCol] \in right]])
                      hits == Cardinality({i \in 1 .. n : results[i].hit})
                      accuracy == RatMul(RatNorm(hits, n), <<100, 1>>)
                  IN  [ok |-> TRUE, err |-> "", df |-> df_processed,
                       report |-> [reported |-> results, has_accuracy |-> TRUE,
                                   accuracy |-> accuracy,
                                   warning |-> accuracy[1] < 75 * accuracy[2],
                                   X_critical |-> X_critical]]

\* __main__, step 4.  X holds the frame given, classifier the frame as the call
\* leaves it together with the report.
ValidateCall(df_processed, right) ==
    LET r == validate_critical_cases(clf, df_processed, right)
    IN  /\ clf_call' = [op |-> "validate_critical_cases", path |-> << >>,
                        X |-> df_processed, ok |-> r.ok, err |-> r.err,
                        classifier |-> NoClassifier,
                        out |-> [df |-> r.df, report |-> r.report]]
        /\ UNCHANGED <<clf, disk, clock>>

----------------------------------------------------------------------------
(* The training script: the stratified split.                              *)

RECURSIVE SumOver(_, _)
\* the sum of f over the set S
SumOver(f, S) ==
    IF S = {} THEN 0
    ELSE LET x == CHOOSE x \in S : TRUE
         IN  f[x] + SumOver(f, S \ {x})

\* test_size=0.2: n_test = ceil(0.2 * n) = ceil(n / 5)
TestCount(n) == (n + 4) \div 5

\* train_test_split(X, y, test_size=0.2, random_state=42, stratify=y), by the
\* number of records y has of each label
train_test_split(counts) ==
    LET classes == {l \in DOMAIN counts : counts[l] > 0}
        n == SumOver(counts, DOMAIN counts)
        n_test == TestCount(n)
        n_train == n - n_test
        failed == [ok |-> FALSE, err |-> "ValueError", train_size |-> 0,
                   test_size |-> 0, stratified |-> FALSE]
    IN  IF n_train = 0 THEN failed
        ELSE IF \E l \in classes : counts[l] < 2 THEN failed
        ELSE IF n_train < Cardinality(classes) THEN failed
        ELSE IF n_test < Cardinality(classes) THEN failed
        ELSE [ok |-> TRUE, err |-> "", train_size |-> n_train, test_size |-> n_test,
              stratified |-> TRUE]

\* __main__, step 2
SplitCall(counts) ==
    LET r == train_test_split(counts)
    IN  main_call' = [op |-> "train_test_split", input |-> counts, ok |-> r.ok,
                      err |-> r.err, out |-> r]

----------------------------------------------------------------------------
(* Specifications.                                                         *)

\* One call on a fresh instance, on a one-row dataset drawn from the ranges
InitLabel ==
    /\ caller_df \in OneRowFrames
    /\ FreshEngineer
    /\ IdleClassifier
    /\ IdleMain
    /\ IdleApp

\* the label may be computed a second time, on the object the first call labelled
LabelOne ==
    /\ \/ fe_call.op = "none"
       \/ fe_call.op = "create_criticality_label" /\ ~HasColumn(fe_call.input, LabelCol)
    /\ CreateLabelCall(caller_df)
    /\ UNCHANGED <<fe_history, non_fe_vars>>
EngineerOne ==
    /\ fe_call.op = "none"
    /\ EngineerCall(caller_df)
    /\ UNCHANGED <<fe_history, non_fe_vars>>

NextLabel == LabelOne \/ EngineerOne

SpecLabel == InitLabel /\ [][NextLabel]_vars

\* Any sequence of calls on one instance; each call is given a dataset, or the
\* object the caller already holds (a dataset that an earlier call has labelled)
LabelledDatasets == {create_criticality_label(d).df : d \in Datasets}
AllFrames == Datasets \cup LabelledDatasets

RECURSIVE EncoderStatesFrom(_)
\* every value label_encoders can take: the closure of S under the calls
EncoderStatesFrom(S) ==
    LET T == S \cup {engineer_features(e, d).encs : e \in S, d \in AllFrames}
    IN  IF T = S THEN S ELSE EncoderStatesFrom(T)

EncoderStates == EncoderStatesFrom({<< >>})

\* The two methods, tabulated once over the values of label_encoders and the
\* frames a call can be given (prepare_for_training reads the scaler only to
\* return it unchanged when the call fails)
EngineerTable ==
    EagerFn([p \in EncoderStates \X AllFrames |-> engineer_features(p[1], p[2])])
PrepareTable ==
    EagerFn([p \in EncoderStates \X AllFrames |->
                prepare_for_training(p[1], NewStandardScaler, p[2])])

InitFE ==
    /\ caller_df = NoFrame
    /\ FreshEngineer
    /\ IdleClassifier
    /\ IdleMain
    /\ IdleApp

CallInputs == Datasets \cup ({caller_df} \ {NoFrame})

EngineerMemo(d) ==
    LET r == EngineerTable[<<label_encoders, d>>]
    IN  /\ caller_df' = d
        /\ label_encoders' = r.encs
        /\ fe_call' = [op |-> "engineer_features", input |-> d, ok |-> r.ok,
                       err |-> r.err, out |-> IF r.ok THEN r.df ELSE NoFrame,
                       X |-> NoFrame, y |-> NoSeries]
        /\ UNCHANGED scaler

PrepareMemo(d) ==
    LET r == PrepareTable[<<label_encoders, d>>]
    IN  /\ caller_df' = r.arg
        /\ label_encoders' = r.encs
        /\ scaler' = IF r.ok THEN r.scaler ELSE scaler
        /\ fe_call' = [op |-> "prepare_for_training", input |-> d, ok |-> r.ok,
                       err |-> r.err, out |-> r.df, X |-> r.X, y |-> r.y]

Engineer ==
    /\ \E d \in CallInputs : EngineerMemo(d)
    /\ UNCHANGED <<fe_history, non_fe_vars>>
Prepare ==
    /\ \E d \in CallInputs : PrepareMemo(d)
    /\ UNCHANGED <<fe_history, non_fe_vars>>

NextFE == Engineer \/ Prepare

SpecFE == InitFE /\ [][NextFE]_vars

\* A fitting call, then a call on a dataset, then the same call on the same
\* dataset (given again as it was, or as the object the call before left)
FitByPrepare ==
    /\ fe_call.op = "none"
    /\ \E d \in Datasets : PrepareCall(d)
    /\ UNCHANGED <<fe_history, non_fe_vars>>
FitByEngineer ==
    /\ fe_call.op = "none"
    /\ \E d \in Datasets : EngineerCall(d)
    /\ UNCHANGED <<fe_history, non_fe_vars>>
TransformByEngineer ==
    /\ fe_call.op # "none" /\ fe_history = << >>
    /\ \E d \in Datasets : EngineerCall(d)
    /\ fe_history' = <<fe_call>>
    /\ UNCHANGED non_fe_vars
TransformByPrepare ==
    /\ fe_call.op # "none" /\ fe_history = << >>
    /\ \E d \in Datasets : PrepareCall(d)
    /\ fe_history' = <<fe_call>>
    /\ UNCHANGED non_fe_vars
RepeatEngineer ==
    /\ Len(fe_history) = 1 /\ fe_call.op = "engineer_features"
    /\ \E d \in {fe_call.input, caller_df} : EngineerCall(d)
    /\ fe_history' = Append(fe_history, fe_call)
    /\ UNCHANGED non_fe_vars
RepeatPrepare ==
    /\ Len(fe_history) = 1 /\ fe_call.op = "prepare_for_training"
    /\ \E d \in {fe_call.input, caller_df} : PrepareCall(d)
    /\ fe_history' = Append(fe_history, fe_call)
    /\ UNCHANGED non_fe_vars

NextIdem ==
    \/ FitByPrepare
    \/ FitByEngineer
    \/ TransformByEngineer
    \/ TransformByPrepare
    \/ RepeatEngineer
    \/ RepeatPrepare

SpecIdem == InitFE /\ [][NextIdem]_vars

\* load_and_prepare_data(csv_path): a new Feature Engineer, fitted by
\* prepare_for_training on the dataset read
LoadAndPrepare(d) ==
    LET r == prepare_for_training(<< >>, NewStandardScaler, d)
    IN  /\ caller_df = r.arg
        /\ label_encoders = r.encs
        /\ scaler = r.scaler
        /\ fe_call = [op |-> "prepare_for_training", input |-> d, ok |-> r.ok,
                      err |-> r.err, out |-> r.df, X |-> r.X, y |-> r.y]
        /\ fe_history = << >>

\* Any sequence of calls on one classifier, of any model_type, over a disk that
\* is empty or holds an artifact at the default path.  The Feature Engineer fe
\* of the run has been fitted by load_and_prepare_data on the base table;
\* classifier.feature_engineer is None or refers to it ("fe").
MaxTrainings == 2

InitClf ==
    /\ LoadAndPrepare(FrameOfRows(BaseTable))
    /\ clf \in {NewClassifier(t) : t \in ModelTypes}
    /\ disk \in InitialDisks
    /\ clock = 1
    /\ clf_call = NoClfCall
    /\ IdleMain
    /\ IdleApp

Train ==
    /\ clock <= MaxTrainings
    /\ \E ts \in TrainingSets : \E lib \in Libraries : TrainCall(ts, lib)
    /\ UNCHANGED non_clf_vars
Predict ==
    /\ \E X \in ProbeMatrices : PredictCall(X)
    /\ UNCHANGED non_clf_vars
PredictProba ==
    /\ \E X \in ProbeMatrices : PredictProbaCall(X)
    /\ UNCHANGED non_clf_vars
Save ==
    /\ \E filepath \in Paths : SaveCall(filepath)
    /\ UNCHANGED non_clf_vars
Load ==
    /\ \E filepath \in Paths : LoadCall(filepath)
    /\ UNCHANGED non_clf_vars

\* classifier.feature_engineer = fe
AttachEngineer ==
    /\ clf.feature_engineer = "None"
    /\ clf' = [clf EXCEPT !.feature_engineer = "fe"]
    /\ clf_call' = [NoClfCall EXCEPT !.op = "set_feature_engineer"]
    /\ UNCHANGED <<disk, clock>>
    /\ UNCHANGED non_clf_vars

NextClf == Train \/ Predict \/ PredictProba \/ Save \/ Load \/ AttachEngineer

SpecClf == InitClf /\ [][NextClf]_vars

\* The run of __main__ from step 3 on: the classifier of line 243 is trained
\* once and the gold cases are validated on frames made of rows of df_processed.
TitledTable ==
    SetColumn(FrameOfRows(BaseTable), TitleCol,
              <<"Data platform", "Cloud migration", "Support">>)

MaxValidationRows == 4

\* rows of df_processed in their order, a row possibly more than once
ValidationFrames(df_processed) ==
    {SelectRows(df_processed, picks) :
        picks \in {p \in SeqsUpTo(DOMAIN df_processed.rows, MaxValidationRows) :
                      \A i \in DOMAIN p : \A j \in DOMAIN p : i < j => p[i] <= p[j]}}

InitValidate ==
    /\ LoadAndPrepare(TitledTable)
    /\ clf = NewClassifier("random_forest")
    /\ disk = EmptyDisk
    /\ clock = 1
    /\ clf_call = NoClfCall
    /\ IdleMain
    /\ IdleApp

Validate ==
    /\ \E d \in ValidationFrames(fe_call.out) :
          \E right \in SUBSET {row[SowIdCol] : row \in Range(d.rows)} :
              ValidateCall(d, right)
    /\ UNCHANGED non_clf_vars

\* line 244: the one training of the run
TrainOnce ==
    /\ clock = 1
    /\ \E ts \in TrainingSets : \E lib \in Libraries : TrainCall(ts, lib)
    /\ UNCHANGED non_clf_vars

NextValidate == TrainOnce \/ Validate

SpecValidate == InitValidate /\ [][NextValidate]_vars

\* The split of a labelled dataset, over the number of records of each label
MaxClassCount == 5

InitMain ==
    /\ caller_df = NoFrame
    /\ FreshEngineer
    /\ IdleClassifier
    /\ IdleMain
    /\ IdleApp

Split ==
    /\ main_call.op = "none"
    /\ \E counts \in [Labels -> 0 .. MaxClassCount] : SplitCall(counts)
    /\ UNCHANGED non_main_vars

NextSplit == Split

SpecSplit == InitMain /\ [][NextSplit]_vars

\* The importances of a fitted forest over the 14 features, in whole units:
\* feature j scores 2 * j, except that up to MaxTied features share one score.
MaxTied == 3

TiedScores == {1, 15}

ImportanceVectors ==
    {Eager([j \in DOMAIN get_feature_columns |-> IF j \in T THEN v ELSE 2 * j]) :
        T \in {U \in SUBSET DOMAIN get_feature_columns : Cardinality(U) <= MaxTied},
        v \in TiedScores}

PrintImportance ==
    /\ main_call.op = "none"
    /\ \E importances \in ImportanceVectors :
          \E order \in ArgsortOutcomes(importances) :
              PrintImportanceCall(importances, order)
    /\ UNCHANGED non_main_vars

NextRank == PrintImportance

SpecRank == InitMain /\ [][NextRank]_vars

\* create_or_update_sow called by requests that run side by side: a request
\* queries, and commits at some later time.  The records are one complete
\* record, of either SOW ID; the same with risk "high" and status "flagged",
\* with None for the risk, without risk and status but with another title and
\* a key that KEY_MAPPING does not know, without a required field, and without
\* a SOW ID.
Requests == {"request 1", "request 2"}

CrudRecords ==
    { BaseRecord,
      SetItem(SetItem(BaseRecord, "risk", "high"), "status", "flagged"),
      SetItem(BaseRecord, "risk", PyNone),
      SetItem(SetItem(Without(Without(BaseRecord, "risk"), "status"),
                      "SOW title", "Data platform"), "sow_id", "SOW-2024-CRIT-001"),
      Without(BaseRecord, "supplier"),
      Without(BaseRecord, "SOW ID"),
      SetItem(BaseRecord, "SOW ID", ""),
      SetItem(BaseRecord, "SOW ID", "SOW-2024-CRIT-001") }

Begin ==
    /\ \E q \in Requests \ DOMAIN in_flight :
          \E raw_sow_dict \in CrudRecords : BeginCall(q, raw_sow_dict)
    /\ UNCHANGED non_app_vars

Commit ==
    /\ \E q \in DOMAIN in_flight : CommitCall(q)
    /\ UNCHANGED non_app_vars

Refresh ==
    /\ \E q \in DOMAIN in_flight : RefreshCall(q)
    /\ UNCHANGED non_app_vars

NextCrud == Begin \/ Commit \/ Refresh

SpecCrud == InitMain /\ [][NextCrud]_vars

\* The endpoints upload_sows, which calls process_sow_record on each record it
\* is given, and generate_email, with the LLM and the SMTP server up or down
\* at each request made to them
UploadRecords ==
    { With(With(BaseRecord, "risk", risk), "status", Absent) : risk \in {" High ", "low"} }
    \cup { SetItem(SetItem(BaseRecord, "SOW ID", "SOW-2024-CRIT-001"), "status", "FLAGGED") }

\* POST /generate-email requests made in a run
MaxManualEmails == 1

ManualRequests ==
    Cardinality({q \in DOMAIN in_flight : in_flight[q].op = "generate_email"})
    + Cardinality({k \in DOMAIN outbox : outbox[k].via = "generate_email"})

\* the lists of one upload: one record, or two records of one SOW ID, which
\* are the lists in which a call meets the object that the call before it
\* has left loaded in the session
ListsOf(records) ==
    {<<r>> : r \in records}
    \cup UNION {{<<r1, r2>> : r2 \in {r \in records : r["SOW ID"] = r1["SOW ID"]}} :
                 r1 \in records}

Upload ==
    /\ \E q \in Requests \ DOMAIN in_flight :
          \E sows \in ListsOf(UploadRecords) : BeginUpload(q, sows)
    /\ UNCHANGED non_app_vars

NextOfList ==
    /\ \E q \in DOMAIN in_flight : NextRecord(q)
    /\ UNCHANGED non_app_vars

Invoke ==
    /\ \E q \in DOMAIN in_flight : \E llm_up \in BOOLEAN : InvokeChain(q, llm_up)
    /\ UNCHANGED non_app_vars

Send ==
    /\ \E q \in DOMAIN in_flight : \E smtp_up \in BOOLEAN : SendEmail(q, smtp_up)
    /\ UNCHANGED non_app_vars

GenerateEmail ==
    /\ ManualRequests < MaxManualEmails
    /\ \E q \in Requests \ DOMAIN in_flight :
          \E sow_id \in SowIds : BeginGenerate(q, sow_id)
    /\ UNCHANGED non_app_vars

NextApp == Upload \/ NextOfList \/ Commit \/ Refresh \/ Invoke \/ Send \/ GenerateEmail

SpecApp == InitMain /\ [][NextApp]_vars

\* The uploads of a table of SOWs that is sent again and again.  Every record
\* keeps being uploaded; a request that has started takes its next step; and
\* the LLM and the SMTP server, which may be down at any request, are not down
\* at every request made to them.
AlertRecords ==
    { SetItem(BaseRecord, "risk", " High "),
      BaseRecord,
      SetItem(SetItem(BaseRecord, "SOW ID", "SOW-2024-CRIT-001"), "risk", " High ") }

\* an upload of a list that begins with the record
UploadOf(raw_sow_dict) ==
    /\ \E q \in Requests \ DOMAIN in_flight :
          \E sows \in ListsOf(AlertRecords) :
             Head(sows) = raw_sow_dict /\ BeginUpload(q, sows)
    /\ UNCHANGED non_app_vars

UploadAgain == \E raw_sow_dict \in AlertRecords : UploadOf(raw_sow_dict)

InvokeUp ==
    /\ \E q \in DOMAIN in_flight : InvokeChain(q, TRUE)
    /\ UNCHANGED non_app_vars

SendUp ==
    /\ \E q \in DOMAIN in_flight : SendEmail(q, TRUE)
    /\ UNCHANGED non_app_vars

NextAlert == UploadAgain \/ NextOfList \/ Commit \/ Refresh \/ Invoke \/ Send \/ GenerateEmail

SpecAlert ==
    /\ InitMain
    /\ [][NextAlert]_vars
    /\ \A raw_sow_dict \in AlertRecords : WF_vars(UploadOf(raw_sow_dict))
    /\ WF_vars(NextOfList) /\ WF_vars(Commit) /\ WF_vars(Refresh)
    /\ WF_vars(Invoke) /\ WF_vars(Send)
    /\ SF_vars(InvokeUp) /\ SF_vars(SendUp)

----------------------------------------------------------------------------
(* The label rule and the derived features (SpecLabel).                    *)

LabelCalled == fe_call.op = "create_criticality_label"
InDays == fe_call.input.rows[1][DaysCol]
InWorkers == fe_call.input.rows[1][WorkersCol]
InBudget == fe_call.input.rows[1][BudgetCol]
OutLabel == fe_call.out.rows[1][LabelCol]

\* C1: for integer days and workers >= 0 the row classifier returns one of the
\* four labels, the same on a repeated call, and it is the label of the rule
\* table read as four disjoint regions: CRITICO iff days <= 30 and workers > 0;
\* ALTO iff (days <= 30 and workers = 0) or (31..60 and workers > 5); MEDIO iff
\* (31..60 and workers <= 5) or 61..90; BAJO iff days > 90.  (30, 0) is ALTO,
\* (-5, 8) CRITICO, (20, 0) ALTO and (150, 3) BAJO.
C1_LabelRuleTable ==
    LabelCalled =>
        /\ fe_call.ok
        /\ OutLabel \in Labels
        /\ OutLabel = "CRÍTICO" <=> (InDays <= 30 /\ InWorkers > 0)
        /\ OutLabel = "ALTO" <=> \/ (InDays <= 30 /\ InWorkers = 0)
                                 \/ (31 <= InDays /\ InDays <= 60 /\ InWorkers > 5)
        /\ OutLabel = "MEDIO" <=> \/ (31 <= InDays /\ InDays <= 60 /\ InWorkers <= 5)
                                  \/ (61 <= InDays /\ InDays <= 90)
        /\ OutLabel = "BAJO" <=> InDays > 90
        /\ (InDays = 30 /\ InWorkers = 0) => OutLabel = "ALTO"
        /\ (InDays = 0 - 5 /\ InWorkers = 8) => OutLabel = "CRÍTICO"
        /\ (InDays = 20 /\ InWorkers = 0) => OutLabel = "ALTO"
        /\ (InDays = 150 /\ InWorkers = 3) => OutLabel = "BAJO"

\* the boundary record (30, 0) has been labelled, a second time, ALTO
C1_Witness ==
    /\ LabelCalled /\ fe_call.ok
    /\ HasColumn(fe_call.input, LabelCol)
    /\ InDays = 30 /\ InWorkers = 0
    /\ OutLabel = "ALTO"

EngineerCalled == fe_call.op = "engineer_features"
OutRow == fe_call.out.rows[1]

\* C2: for integer days, workers >= 0 and budget >= 0, engineer_features does not
\* fail and gives is_expired = 1 iff days < 0, is_critical_window = 1 iff
\* days <= 30, is_high_priority_window = 1 iff 30 < days <= 60, has_workers = 1
\* iff workers > 0, worker_criticality_score = workers * is_critical_window,
\* budget_per_worker = budget / workers for workers > 0 and exactly 0 for
\* workers = 0, and days_to_expire and worker_count are the raw values.
C2_DerivedFeatures ==
    EngineerCalled =>
        /\ fe_call.ok
        /\ OutRow["is_expired"] = (IF InDays < 0 THEN 1 ELSE 0)
        /\ OutRow["is_critical_window"] = (IF InDays <= 30 THEN 1 ELSE 0)
        /\ OutRow["is_high_priority_window"] =
              (IF 30 < InDays /\ InDays <= 60 THEN 1 ELSE 0)
        /\ OutRow["has_workers"] = (IF InWorkers > 0 THEN 1 ELSE 0)
        /\ OutRow["worker_criticality_score"] =
              InWorkers * OutRow["is_critical_window"]
        /\ InWorkers > 0 =>
              /\ OutRow["budget_per_worker"][2] > 0
              /\ OutRow["budget_per_worker"][1] * InWorkers =
                    InBudget * OutRow["budget_per_worker"][2]
        /\ InWorkers = 0 => OutRow["budget_per_worker"] = <<0, 1>>
        /\ OutRow["days_to_expire"] = InDays
        /\ OutRow["worker_count"] = InWorkers

\* a record with a budget and no workers has been engineered: budget_per_worker 0
C2_Witness ==
    /\ EngineerCalled /\ fe_call.ok
    /\ InWorkers = 0 /\ InBudget > 0 /\ InDays = 60
    /\ OutRow["budget_per_worker"] = <<0, 1>>
    /\ OutRow["is_high_priority_window"] = 1

----------------------------------------------------------------------------
(* The fitted state of the Feature Engineer (SpecFE, SpecIdem).            *)

AllEncodersFitted(encs) ==
    \A k \in DOMAIN categorical_cols :
        categorical_cols[k] \in DOMAIN encs /\ encs[categorical_cols[k]].fitted

CompleteFrame(d) == \A k \in DOMAIN RawColumns : HasColumn(d, RawColumns[k])

\* some record of d carries a category value that the fitted encoder has not seen
HasUnseenCategory(encs, d) ==
    \E k \in DOMAIN categorical_cols : \E i \in DOMAIN d.rows :
        d.rows[i][categorical_cols[k]] \notin Range(encs[categorical_cols[k]].classes_)

FullFeatureRows(call) ==
    /\ Len(call.out.rows) = Len(call.input.rows)
    /\ \A i \in DOMAIN call.out.rows : \A j \in DOMAIN get_feature_columns :
          get_feature_columns[j] \in DOMAIN call.out.rows[i]

\* C3: a call on an instance whose four encoders are fitted, given a complete
\* dataset that holds a category value absent from the fit dataset, does not
\* fail and produces a full 14-column row for every record.
C3_UnseenCategoryHandled ==
    [][ ( /\ AllEncodersFitted(label_encoders)
          /\ fe_call'.op \in {"engineer_features", "prepare_for_training"}
          /\ CompleteFrame(fe_call'.input)
          /\ HasUnseenCategory(label_encoders, fe_call'.input) )
        => (fe_call'.ok /\ FullFeatureRows(fe_call')) ]_fe_vars

\* C4: engineer_features on an instance on which no fit has happened (empty
\* label_encoders, unfitted scaler) fails with an unfitted-state error and
\* leaves the encoders and the scaler unfitted.
C4_TransformBeforeFitRaises ==
    [][ ( /\ label_encoders = << >>
          /\ ~scaler.fitted
          /\ fe_call'.op = "engineer_features" )
        => ( /\ ~fe_call'.ok
             /\ fe_call'.err = "NotFittedError"
             /\ label_encoders' = << >>
             /\ ~scaler'.fitted ) ]_fe_vars

\* C5: once a prepare_for_training call has succeeded (the four encoders and
\* the scaler are fitted), no later engineer_features or prepare_for_training
\* call changes an encoder's classes or the scaler's constants.
C5_FitStateReadOnly ==
    [][ (scaler.fitted /\ AllEncodersFitted(label_encoders))
        => (label_encoders' = label_encoders /\ scaler' = scaler) ]_fe_vars

\* the same dataset: equal index and equal records, the label column apart
SameDataset(a, b) ==
    LET Raw(d) == IF HasColumn(d, LabelCol) THEN DropColumn(d, LabelCol) ELSE d
    IN  Raw(a) = Raw(b)

\* C6: after one successful fitting call, a call made twice on the same dataset
\* has the same outcome both times: the same feature matrix (values, rows and
\* columns), the same labels and the same engineered frame; the second result
\* equals the first, which was computed with no transform before it.
C6_RepeatedTransformIdentical ==
    (Len(fe_history) = 2 /\ fe_history[1].ok) =>
        /\ fe_call.op = fe_history[2].op
        /\ SameDataset(fe_call.input, fe_history[2].input)
        /\ fe_call.ok = fe_history[2].ok
        /\ fe_call.err = fe_history[2].err
        /\ fe_call.X = fe_history[2].X
        /\ fe_call.y = fe_history[2].y
        /\ fe_call.out = fe_history[2].out

\* fitted on one dataset, a different two-record dataset has been put through
\* prepare_for_training twice, both times with success
C6_Witness ==
    /\ Len(fe_history) = 2
    /\ fe_history[1].op = "prepare_for_training" /\ fe_history[1].ok
    /\ fe_history[2].op = "prepare_for_training" /\ fe_history[2].ok
    /\ fe_call.op = "prepare_for_training" /\ fe_call.ok
    /\ ~SameDataset(fe_history[1].input, fe_call.input)
    /\ Len(fe_call.X.rows) = 2
    /\ fe_call.X.rows[1] # fe_call.X.rows[2]

\* C17: the X of every successful prepare_for_training, the first on an
\* instance as well as the later ones, has exactly these 14 columns in this
\* order, in its header and in each of its rows.
C17_FourteenColumnsInOrder ==
    \A call \in {fe_call} \cup Range(fe_history) :
        (call.op = "prepare_for_training" /\ call.ok) =>
            /\ call.X.columns =
                   << "days_to_expire", "is_expired", "is_critical_window",
                      "is_high_priority_window", "has_workers", "worker_count",
                      "worker_criticality_score", "budget_normalized",
                      "budget_per_worker", "risk_score", "supplier_encoded",
                      "Business Unit_encoded", "Primary LOB_encoded",
                      "currency_encoded" >>
            /\ Len(call.X.columns) = 14
            /\ \A i \in DOMAIN call.X.rows :
                  DOMAIN call.X.rows[i] = Range(call.X.columns)

\* a first prepare_for_training and a later one on the same instance, on
\* different datasets, both with success
C17_Witness ==
    /\ Len(fe_history) >= 1
    /\ fe_history[1].op = "prepare_for_training" /\ fe_history[1].ok
    /\ fe_call.op = "prepare_for_training" /\ fe_call.ok
    /\ fe_history[1].input # fe_call.input
    /\ Len(fe_call.X.rows) >= 1
    /\ Len(fe_call.X.columns) = 14

\* C18: after prepare_for_training, create_criticality_label or
\* engineer_features the dataset object the caller passed has the columns and
\* the values it had when it was passed.
C18_InputDatasetReadOnly ==
    fe_call.op \in {"prepare_for_training", "create_criticality_label",
                    "engineer_features"}
        => caller_df = fe_call.input

PrepareCalled == fe_call.op = "prepare_for_training"

\* the unscaled value of feature column c for the record rec
FeatureOf(rec, c) ==
    IF c \in Range(NumericNames) THEN NumericFeatures(rec)[c]
    ELSE LET col == CHOOSE k \in Range(categorical_cols) : EncodedName(k) = c
         IN  CodeOf(label_encoders[col].classes_, rec[col])

\* C7: a successful prepare_for_training returns X and y with one row per input
\* record, in input order: the i-th label is the label of the i-th record and
\* the i-th row of X is the scaled feature row of the i-th record, whatever the
\* index labels of the input (y keeps them, X is numbered 0..n-1).
C7_RowsAlignedWithInput ==
    (PrepareCalled /\ fe_call.ok) =>
        LET n == Len(fe_call.input.rows)
        IN  /\ Len(fe_call.X.rows) = n
            /\ Len(fe_call.y.values) = n
            /\ fe_call.X.index = [i \in 1 .. n |-> i - 1]
            /\ fe_call.y.index = fe_call.input.index
            /\ \A i \in 1 .. n :
                  /\ fe_call.y.values[i] = classify(fe_call.input.rows[i])
                  /\ \A j \in DOMAIN get_feature_columns :
                        fe_call.X.rows[i][get_feature_columns[j]] =
                            StdCell(NumCell(get_feature_columns[j],
                                            FeatureOf(fe_call.input.rows[i],
                                                      get_feature_columns[j])),
                                    scaler.moments[j])

\* a dataset whose index is not 0..n-1 and one with a repeated record have been
\* prepared
C7_Witness ==
    /\ PrepareCalled /\ fe_call.ok
    /\ Len(fe_call.input.rows) = 2
    /\ \/ fe_call.input.index = <<2, 0>>
       \/ fe_call.input.rows[1] = fe_call.input.rows[2]
    /\ fe_call.y.index = fe_call.input.index
    /\ fe_call.X.index = <<0, 1>>

\* C14: an engineer_features or prepare_for_training call that fails leaves
\* the instance's label_encoders and scaler as they were before the call; in
\* particular a first call that fails part-way leaves label_encoders empty.
C14_FailedCallKeepsState ==
    [][ (fe_call'.op \in {"engineer_features", "prepare_for_training"} /\ ~fe_call'.ok)
        => (label_encoders' = label_encoders /\ scaler' = scaler) ]_fe_vars

----------------------------------------------------------------------------
(* Saving and loading the classifier (SpecClf).                            *)

\* C8: save_model on a classifier that has never been trained (model is None)
\* fails, writes no artifact file and no metrics file, and leaves the
\* classifier untrained.
C8_SaveUntrainedFails ==
    [][ (clf.model.class = "NoneType" /\ clf_call'.op = "save_model")
        => (~clf_call'.ok /\ disk' = disk /\ clf' = clf) ]_clf_vars

RequiredKeys == {"model", "model_type", "training_date", "metrics"}

\* the file is no bundle with all required fields and a model
IncompleteArtifact(file) ==
    IF file.format # "joblib" THEN TRUE
    ELSE IF \E k \in RequiredKeys : k \notin DOMAIN file.data THEN TRUE
    ELSE \/ "test_accuracy" \notin DOMAIN file.data["metrics"]
         \/ file.data["model"].class = "NoneType"

\* C9: load_model on an artifact that lacks a required field (model,
\* model_type, training_date, metrics with test_accuracy) or whose model is
\* absent fails and returns no classifier; every classifier load_model returns
\* has a fitted model on which predict works.
C9_LoadRejectsIncomplete ==
    clf_call.op = "load_model" =>
        /\ ( /\ clf_call.path \in DOMAIN disk.files
             /\ IncompleteArtifact(disk.files[clf_call.path]) )
           => (~clf_call.ok /\ clf_call.classifier = NoClassifier)
        /\ clf_call.ok =>
              /\ clf_call.classifier.model.fitted
              /\ predict(clf_call.classifier, <<1>>).ok

\* C10: for a trained classifier, a successful save_model(path) followed by
\* load_model(path) returns a classifier with the original's model_type,
\* training_date and metrics, whose predict output equals the original's on
\* every feature matrix.
C10_SaveLoadRoundTrip ==
    [][ ( /\ clf.model.fitted
          /\ clf_call.op = "save_model" /\ clf_call.ok
          /\ clf_call'.op = "load_model" /\ clf_call'.path = clf_call.path )
        => ( /\ clf_call'.ok
             /\ clf_call'.classifier.model_type = clf.model_type
             /\ clf_call'.classifier.training_date = clf.training_date
             /\ clf_call'.classifier.metrics = clf.metrics
             /\ \A X \in ProbeMatrices :
                   predict(clf_call'.classifier, X) = predict(clf, X) ) ]_clf_vars

FullyUntrained(c) ==
    c.model = NoneModel /\ c.metrics = << >> /\ c.training_date = 0

\* the model is fitted and the metrics and the training date are those of a
\* run on the training set the model was fitted on
ConsistentlyTrained(c) ==
    /\ c.model.fitted
    /\ c.training_date # 0
    /\ \E ts \in TrainingSets :
          /\ ts.id = c.model.fitted_on
          /\ c.metrics = [train_accuracy |-> ts.train_accuracy,
                          test_accuracy |-> ts.test_accuracy,
                          train_size |-> ts.train_size,
                          test_size |-> ts.test_size]

\* C23: whatever train calls have been made, failed ones and re-trainings
\* included, the classifier is fully untrained or consistently trained, and a
\* classifier on which predict works never becomes one on which it fails.
C23_TrainAllOrNothing ==
    [][ /\ FullyUntrained(clf') \/ ConsistentlyTrained(clf')
        /\ predict(clf, <<1>>).ok => predict(clf', <<1>>).ok ]_clf_vars

\* C21: save_model of a trained classifier succeeds on every filepath, those
\* without '.pkl' and those without a directory part included; when it returns,
\* the metrics record is in a file other than filepath, filepath holds the
\* serialized bundle, and load_model(filepath) succeeds.
C21_MetricsInSiblingFile ==
    [][ (clf.training_date # 0 /\ clf_call'.op = "save_model") =>
          LET filepath == clf_call'.path
              metrics_file == MetricsFileOf(filepath)
          IN  /\ clf_call'.ok
              /\ metrics_file # filepath
              /\ metrics_file \in DOMAIN disk'.files
              /\ disk'.files[metrics_file] = JsonFile(clf.metrics)
              /\ disk'.files[filepath].format = "joblib"
              /\ load_model(disk', filepath).ok ]_clf_vars

\* C11: the artifact save_model writes for a classifier that holds the fitted
\* Feature Engineer contains that Feature Engineer, and the classifier that
\* load_model returns from it has feature_engineer set to it.
C11_ArtifactCarriesEngineer ==
    [][ /\ ( /\ clf.feature_engineer # "None"
             /\ clf_call'.op = "save_model" /\ clf_call'.ok
             /\ disk'.files[clf_call'.path].format = "joblib" )
           => ( /\ "feature_engineer" \in DOMAIN disk'.files[clf_call'.path].data
                /\ disk'.files[clf_call'.path].data["feature_engineer"] =
                      clf.feature_engineer )
        /\ ( /\ clf.feature_engineer # "None"
             /\ clf_call.op = "save_model" /\ clf_call.ok
             /\ clf_call'.op = "load_model" /\ clf_call'.path = clf_call.path
             /\ clf_call'.ok )
           => clf_call'.classifier.feature_engineer = clf.feature_engineer
      ]_clf_vars

PredictionCalled(call) == call.op \in {"predict", "predict_proba"}

\* C12: predict and predict_proba on a classifier on which no train has
\* succeeded fail, return nothing and leave the classifier as it was; once a
\* train has succeeded they return, for a matrix with rows, one result per row,
\* predict_proba with a column for each of the four classes.
C12_PredictNeedsTraining ==
    [][ /\ (clf.training_date = 0 /\ PredictionCalled(clf_call'))
           => (~clf_call'.ok /\ clf_call'.out = << >> /\ clf' = clf)
        /\ (clf.training_date # 0 /\ PredictionCalled(clf_call') /\ clf_call'.X # << >>)
           => ( /\ clf_call'.ok
                /\ Len(clf_call'.out) = Len(clf_call'.X)
                /\ clf_call'.op = "predict_proba" =>
                      \A i \in DOMAIN clf_call'.out : clf_call'.out[i].columns = Labels )
      ]_clf_vars

----------------------------------------------------------------------------
(* The training script (SpecSplit).                                        *)

SplitCalled == main_call.op = "train_test_split"

\* C13: the stratified split does not fail on a dataset in which each of the
\* four classes has at least 2 members, and fails when some class has exactly
\* 1 member.
C13_StratifiedSplit ==
    SplitCalled =>
        /\ (\A l \in Labels : main_call.input[l] >= 2) => main_call.ok
        /\ (\E l \in Labels : main_call.input[l] = 1) => ~main_call.ok

----------------------------------------------------------------------------
(* Claims on validate_critical_cases, under SpecValidate.                  *)

GoldPositions(df) == CritPositions(df.rows, 1)

HitCount(reported) == Cardinality({i \in DOMAIN reported : reported[i].hit})

\* C15: validate_critical_cases changes neither the classifier, the Feature
\* Engineer nor the frame it is given; with no gold case (no SOW ID containing
\* 'CRIT') it returns without an accuracy; on a trained classifier it returns
\* normally whatever the number of right predictions, reports one line per gold
\* case, in order, with the expected label, and the accuracy 100 * right / gold
\* cases, and warns exactly when that accuracy is strictly below 75.
C15_ValidationReport ==
    [][ clf_call'.op = "validate_critical_cases" =>
          LET d == clf_call'.X
              gold == GoldPositions(d)
              n == Len(gold)
              rep == clf_call'.out.report
          IN  /\ clf' = clf
              /\ label_encoders' = label_encoders
              /\ scaler' = scaler
              /\ fe_call' = fe_call
              /\ clf_call'.out.df = d
              /\ n = 0 => ( /\ clf_call'.ok
                            /\ ~rep.has_accuracy
                            /\ ~rep.warning
                            /\ rep.reported = << >> )
              /\ (n > 0 /\ clf.training_date # 0) => clf_call'.ok
              /\ (n > 0 /\ clf_call'.ok) =>
                    /\ Len(rep.reported) = n
                    /\ \A i \in 1 .. n :
                          /\ rep.reported[i].sow_id = d.rows[gold[i]][SowIdCol]
                          /\ rep.reported[i].expected = d.rows[gold[i]][LabelCol]
                    /\ rep.has_accuracy
                    /\ rep.accuracy[1] * n = 100 * HitCount(rep.reported) * rep.accuracy[2]
                    /\ rep.warning <=> (4 * HitCount(rep.reported) < 3 * n) ]_vars

\* the number of a cell, written as StdCell writes its results
PlainNumber(cell) ==
    [sign |-> RatSign(cell.c), sq |-> RatMul(cell.c, cell.c), sym |-> << >>]

\* C22: every feature value that validate_critical_cases hands to
\* classifier.predict is the engineered value scaled with the constants of the
\* fitted scaler, as the training matrix of prepare_for_training is (stated for
\* the columns whose values are ordinary numbers).
C22_ValidationRowsScaled ==
    ( /\ clf_call.op = "validate_critical_cases"
      /\ clf_call.ok
      /\ clf_call.out.report.reported # << >> )
    => LET X_critical == clf_call.out.report.X_critical
       IN  \A i \in DOMAIN X_critical.rows : \A j \in DOMAIN X_critical.columns :
               LET cell == NumCell(X_critical.columns[j],
                                   X_critical.rows[i][X_critical.columns[j]])
               IN  (IsPlain(scaler.moments[j]) /\ cell.w = 0)
                      => PlainNumber(cell) = StdCell(cell, scaler.moments[j])

\* three of four gold cases right: accuracy 75, no warning
C15_Witness ==
    /\ clf_call.op = "validate_critical_cases"
    /\ clf_call.ok
    /\ Len(clf_call.out.report.reported) = 4
    /\ HitCount(clf_call.out.report.reported) = 3
    /\ clf_call.out.report.accuracy = <<75, 1>>
    /\ ~clf_call.out.report.warning

----------------------------------------------------------------------------
(* Claim on the feature-importance ranking, under SpecRank.                *)

IndexOfFeature(name) ==
    CHOOSE k \in DOMAIN get_feature_columns : get_feature_columns[k] = name

\* C16: the lines printed by _print_feature_importance are in descending order
\* of importance, and features of equal importance are in their order in
\* get_feature_columns.
C16_RankingKeepsFeatureOrder ==
    main_call.op = "_print_feature_importance" =>
        \A i \in DOMAIN main_call.out : \A j \in DOMAIN main_call.out :
            i < j =>
                \/ main_call.out[i].importance > main_call.out[j].importance
                \/ /\ main_call.out[i].importance = main_call.out[j].importance
                   /\ IndexOfFeature(main_call.out[i].name)
                          < IndexOfFeature(main_call.out[j].name)

----------------------------------------------------------------------------
(* Claims on the alerting service.                                         *)

SowIdsOf(rows) == {rows[i]["sow_id"] : i \in DOMAIN rows}

\* the call request q is in ends in the step
Ends(q) ==
    /\ q \in DOMAIN in_flight
    /\ in_flight[q].stage # "next"
    /\ (q \in DOMAIN in_flight' => in_flight'[q].stage = "next")

\* a call begins and ends in the step, at its query
EndsAtOnce == app_call' # NoAppCall /\ ~\E q \in DOMAIN in_flight : Ends(q)

\* the step is the one in which request q comes to its db.commit()
Commits(q) ==
    /\ q \in DOMAIN in_flight
    /\ in_flight[q].stage = "queried"
    /\ (q \in DOMAIN in_flight' => in_flight'[q].stage # "queried")

\* the db.commit() of request q is made in the step
Committed(q) ==
    /\ Commits(q)
    /\ q \in DOMAIN in_flight'
    /\ in_flight'[q].stage = "committed"

\* the row asks for an alert: risk "high" or status "flagged" after trimming
\* and lower-casing
Alerting(row) ==
    StripLower(row["risk"]) = "high" \/ StripLower(row["status"]) = "flagged"

UploadMailsOf(sent, sow_id) ==
    {k \in DOMAIN sent : sent[k].sow_id = sow_id /\ sent[k].via = "process_sow_record"}

\* C19 (SpecApp): over the process_sow_record calls of the requests, an email
\* of the upload path is sent only by a call that has created the row of the
\* email's sow_id (its action is "created") and has read it back from the
\* table with risk "high" or status "flagged" after trimming and lower-casing;
\* a call that updates a stored sow_id sends none and never comes to the
\* email; no sow_id gets a second email of the upload path.
C19_EmailOnlyOnAlertingCreate ==
    [][ /\ (outbox' # outbox /\ outbox'[Len(outbox')].via = "process_sow_record") =>
              LET mail == outbox'[Len(outbox')]
              IN  /\ Len(outbox') = Len(outbox) + 1
                  /\ SubSeq(outbox', 1, Len(outbox)) = outbox
                  /\ \E q \in DOMAIN in_flight :
                        /\ Ends(q)
                        /\ in_flight[q].op = "process_sow_record"
                        /\ in_flight[q].action = "created"
                        /\ in_flight[q].existing = 0
                        /\ in_flight[q].sow_obj["sow_id"] = mail.sow_id
                        /\ Alerting(in_flight[q].sow_obj)
                  /\ app_call'.ok /\ app_call'.action = "created" /\ app_call'.emailed
                  /\ app_call'.sow_id = mail.sow_id
                  /\ FirstWithSowId(db', mail.sow_id) # 0
                  /\ UploadMailsOf(outbox, mail.sow_id) = {}
        /\ \A q \in DOMAIN in_flight :
              ( /\ Ends(q)
                /\ in_flight[q].op = "process_sow_record"
                /\ in_flight[q].existing # 0 )
              => outbox' = outbox
        /\ \A q \in DOMAIN in_flight' :
              ( /\ in_flight'[q].op = "process_sow_record"
                /\ in_flight'[q].stage \in {"alerting", "generated"} )
              => ( /\ in_flight'[q].action = "created"
                   /\ Alerting(in_flight'[q].sow_obj)
                   /\ in_flight'[q].sow_obj["sow_id"] =
                         in_flight'[q].normalized["sow_id"] ) ]_vars

\* an upload has updated a stored high-risk SOW whose creation had sent the one
\* email there is for it
C19_Witness ==
    /\ app_call.op = "process_sow_record"
    /\ app_call.ok /\ app_call.action = "updated"
    /\ Get(app_call.input, "risk") = " High "
    /\ Cardinality(UploadMailsOf(outbox, app_call.sow_id)) = 1
    /\ Len(outbox) = 2

\* C20 (SpecCrud): create_or_update_sow on a record whose sow_id it has found
\* stored commits, returns "updated", adds no row, leaves the other rows as
\* they are and, in the row of that sow_id, changes nothing but risk and
\* status, each to the incoming value and only if the incoming record has the
\* key.
C20_UpdateTouchesRiskAndStatusOnly ==
    [][ /\ \A q \in DOMAIN in_flight :
              ( /\ Commits(q)
                /\ in_flight[q].op = "create_or_update_sow"
                /\ in_flight[q].existing # 0 )
              => LET at == in_flight[q].existing
                     input == in_flight[q].input
                 IN  /\ Committed(q)
                     /\ in_flight'[q].action = "updated"
                     /\ Len(db') = Len(db)
                     /\ \A i \in DOMAIN db : i # at => db'[i] = db[i]
                     /\ \A col \in DOMAIN db[at] :
                           col \notin {"risk", "status"} => db'[at][col] = db[at][col]
                     /\ \A key \in {"risk", "status"} :
                           IF key \in DOMAIN input
                           THEN db'[at][key] = input[key]
                           ELSE db'[at][key] = db[at][key]
        /\ \A q \in DOMAIN in_flight :
              ( /\ Ends(q)
                /\ in_flight[q].op = "create_or_update_sow"
                /\ in_flight[q].existing # 0 )
              => (app_call'.ok /\ app_call'.action = "updated" /\ db' = db) ]_vars

\* the status process_sow_record is to store for the record
StatusToStore(raw_sow_dict) ==
    IF "status" \in DOMAIN raw_sow_dict
    THEN raw_sow_dict["status"]
    ELSE IF /\ "risk" \in DOMAIN raw_sow_dict
            /\ raw_sow_dict["risk"] \in {"high", "HIGH", " High "}
         THEN "flagged"
         ELSE "healthy"

\* C24 (SpecApp): process_sow_record leaves the caller's dictionary as it
\* was and hands create_or_update_sow the record with the status of the
\* record if the record has the key, and else with "flagged" if the record's
\* risk is "high" up to surrounding blanks and letter case, "healthy" if not;
\* the commit stores that status in the row of the SOW ID, a new row or a row
\* that no other request has changed since the session of the call loaded it.
C24_StatusAssignedWhenAbsent ==
    [][ /\ app_call'.op = "process_sow_record" => app_call'.arg = app_call'.input
        /\ \A q \in DOMAIN in_flight' :
              /\ in_flight'[q].arg = in_flight'[q].input
              /\ ( /\ in_flight'[q].op = "process_sow_record"
                   /\ in_flight'[q].stage # "next" )
                 => in_flight'[q].normalized["status"] =
                       StatusToStore(in_flight'[q].input)
        /\ \A q \in DOMAIN in_flight :
              ( /\ in_flight[q].op = "process_sow_record"
                /\ Committed(q)
                /\ \/ in_flight[q].existing = 0
                   \/ db[in_flight[q].existing] = in_flight[q].loaded )
              => LET at == FirstWithSowId(db', in_flight[q].input["SOW ID"])
                 IN  /\ at # 0
                     /\ in_flight'[q].sow_obj["id"] = at
                     /\ db'[at]["status"] = StatusToStore(in_flight[q].input) ]_vars

\* the call on a record with risk ' High ' and no status has committed
\* "flagged" to a row that was stored as "healthy"
C24_Witness ==
    \E q \in DOMAIN in_flight :
        /\ in_flight[q].op = "process_sow_record"
        /\ in_flight[q].stage = "committed"
        /\ in_flight[q].action = "updated"
        /\ "status" \notin DOMAIN in_flight[q].input
        /\ in_flight[q].input["risk"] = " High "
        /\ in_flight[q].loaded["status"] = "healthy"
        /\ db[in_flight[q].existing]["status"] = "flagged"

\* C25 (SpecCrud): create_or_update_sow on a record without a SOW ID (no key,
\* or the empty string) or without one of the required fields raises and leaves
\* the table, with the rows earlier calls committed, exactly as it was.
C25_InvalidRecordRejected ==
    [][ /\ ( /\ EndsAtOnce
             /\ Get(app_call'.input, "SOW ID") \in {PyNone, ""} )
           => (~app_call'.ok /\ db' = db)
        /\ \A q \in DOMAIN in_flight' :
              Get(in_flight'[q].input, "SOW ID") \notin {PyNone, ""}
        /\ \A q \in DOMAIN in_flight :
              ( /\ Commits(q)
                /\ \E key \in DOMAIN KEY_MAPPING : key \notin DOMAIN in_flight[q].input )
              => (Ends(q) /\ ~app_call'.ok /\ db' = db) ]_vars

\* C26 (SpecCrud): however the create_or_update_sow calls of the requests
\* interleave, the table never holds two rows with one sow_id, and a call
\* comes to report "created" only by a commit that has added the one row of a
\* sow_id that had none: of two calls that both found a new sow_id not
\* existing, at most one reports "created".
C26_OneRowPerSowId ==
    [][ /\ \A i \in DOMAIN db' : \A j \in DOMAIN db' :
              db'[i]["sow_id"] = db'[j]["sow_id"] => i = j
        /\ \A q \in DOMAIN in_flight :
              (Committed(q) /\ in_flight'[q].action = "created") =>
                 /\ in_flight[q].normalized["sow_id"] \notin SowIdsOf(db)
                 /\ in_flight'[q].sow_obj["sow_id"] = in_flight[q].normalized["sow_id"]
                 /\ Len(db') = Len(db) + 1
        /\ \A q \in DOMAIN in_flight :
              (Ends(q) /\ app_call'.ok /\ app_call'.action = "created") =>
                 /\ in_flight[q].stage = "committed"
                 /\ in_flight[q].action = "created"
                 /\ in_flight[q].existing = 0
        /\ \A q1 \in DOMAIN in_flight' : \A q2 \in DOMAIN in_flight' :
              ( /\ in_flight'[q1].action = "created"
                /\ in_flight'[q2].action = "created"
                /\ in_flight'[q1].sow_obj["sow_id"] = in_flight'[q2].sow_obj["sow_id"] )
              => q1 = q2 ]_vars

\* a call that had found its sow_id not existing has been refused at its
\* commit, the other request having created the row in between
C26_Witness ==
    /\ app_call.op = "create_or_update_sow"
    /\ ~app_call.ok /\ app_call.err = "IntegrityError"
    /\ Get(app_call.input, "risk") = "low"
    /\ app_call.input["SOW ID"] \in SowIdsOf(db)
    /\ Len(db) = 1
    /\ in_flight = << >>

\* a process_sow_record has committed the new row of sow_id, with risk "high"
\* or status "flagged"
CreatedAlerting(sow_id) ==
    \E q \in DOMAIN in_flight :
        /\ in_flight[q].op = "process_sow_record"
        /\ in_flight[q].stage = "committed"
        /\ in_flight[q].action = "created"
        /\ in_flight[q].sow_obj["sow_id"] = sow_id
        /\ Alerting(in_flight[q].sow_obj)

AlertSent(sow_id) == \E k \in DOMAIN outbox : outbox[k].sow_id = sow_id

\* C27 (SpecAlert): a record that process_sow_record has created with risk
\* "high" or status "flagged" eventually has its alert email sent, also when
\* the email generation or the SMTP send failed after the row was committed
\* and the record is uploaded again later.
C27_AlertEventuallySent ==
    \A sow_id \in SowIds : CreatedAlerting(sow_id) ~> AlertSent(sow_id)

\* BAJO < MEDIO < ALTO < CRÍTICO
LabelRank(label) ==
    CASE label = "BAJO" -> 0
      [] label = "MEDIO" -> 1
      [] label = "ALTO" -> 2
      [] label = "CRÍTICO" -> 3

\* the labelled record with another value in one column
InRowWith(col, value) == [fe_call.input.rows[1] EXCEPT ![col] = value]

\* C28 (SpecLabel): with BAJO < MEDIO < ALTO < CRÍTICO, the label of a record
\* of integer days and workers >= 0 is not below the label of the same record
\* with more days and not above the label of the same record with more
\* workers; and it is CRÍTICO exactly when engineer_features gives the record
\* is_critical_window = 1 and has_workers = 1, that is
\* worker_criticality_score > 0.
C28_LabelMonotone ==
    LabelCalled =>
        /\ \A days \in DaysRange :
              days >= InDays =>
                 LabelRank(classify(InRowWith(DaysCol, days))) <= LabelRank(OutLabel)
        /\ \A workers \in WorkersRange :
              workers >= InWorkers =>
                 LabelRank(classify(InRowWith(WorkersCol, workers))) >= LabelRank(OutLabel)
        /\ LET features == NumericFeatures(fe_call.input.rows[1])
           IN  /\ OutLabel = "CRÍTICO" <=>
                     (features.is_critical_window = 1 /\ features.has_workers = 1)
               /\ OutLabel = "CRÍTICO" <=> features.worker_criticality_score > 0

\* a record of 60 days and 6 workers has been labelled ALTO; a day later, or
\* with a worker less, it would be MEDIO
C28_Witness ==
    /\ LabelCalled /\ fe_call.ok
    /\ InDays = 60 /\ InWorkers = 6
    /\ OutLabel = "ALTO"
    /\ classify(InRowWith(DaysCol, 61)) = "MEDIO"
    /\ classify(InRowWith(WorkersCol, 5)) = "MEDIO"
    /\ NumericFeatures(fe_call.input.rows[1]).worker_criticality_score = 0

============================================================================
